---- MODULE Spec2Model ----
(***************************************************************************)
(* The ingestion / storage / upload core of the flow-record processor:     *)
(*   runIngest  -> dataChan -> runBatchWriter -> BatchWriter -> data dir   *)
(*   Uploader   : data dir -> remote deposit (temp name, verify, rename)   *)
(*   main       : start-up wiring and shutdown sequencing                  *)
(* Each goroutine is a process with a program counter; the BatchWriter's   *)
(* rotation steps (flush, compressor close, file close, rename, create)    *)
(* are separate steps so that every intermediate file-system state shows.  *)
(***************************************************************************)
EXTENDS Integers, Sequences, FiniteSets, TLC

\* ------------------------------------------------------------------ bounds
NumLines == 3        \* data lines on stdin
BatchMax == 2        \* the writer loop's batch limit (1000 in the source), scaled
MiB == 2             \* stand-in for 1024*1024 in the size threshold, scaled
MaxTime == 1         \* the clock runs 0..MaxTime (seconds)
MaxFaults == 1       \* I/O and remote failures injected per run
MaxScans == 2        \* scans of the Uploader (the first one and ticker scans)
MaxIn == 3           \* lines on stdin when the input is drawn freely

\* ----------------------------------------------------------- configuration
ChanCap == 1             \* cfg.IngestChanCapacity
rotateIntervalSec == 1   \* BatchWriter.rotateIntervalSec
rotateSizeMB == 2        \* BatchWriter.rotateSizeMB

\* ------------------------------------------------------------------ helpers
Put(f, k, v) == [x \in (DOMAIN f) \cup {k} |-> IF x = k THEN v ELSE f[x]]
Del(f, k) == [x \in (DOMAIN f) \ {k} |-> f[x]]
Min(a, b) == IF a < b THEN a ELSE b

\* ------------------------------------------------------------ input lines
\* A stdin line is its separator and its columns; a column is a token [k, v]:
\*   "int"   the decimal integer v          "nan"   the text NaN
\*   "ip4"   a dotted IPv4 address          "inf"   the text Inf
\*   "ip6"   an IPv6 address                "text"  any other text, no keyword
\*   "blank" nothing but spaces             a column name (it is its own kind)
\* The empty line has no columns.  id tells the data lines apart.
Tok(k, v) == [k |-> k, v |-> v]
Num(v) == Tok("int", v)
ColumnNames == {"packetTotalCount", "octetTotalCount", "src_ip"}
Name(s) == Tok(s, 0)

\* strings.Split(line, sep): the columns when sep is the line's separator,
\* otherwise the whole line as one field
Split(line, sep) ==
    IF Len(line.cols) <= 1 \/ line.sep = sep THEN line.cols
    ELSE <<Tok("text", 0)>>

\* a well-formed record: SRC_IP,DST_IP,SRC_PORT,DST_PORT,TCP_FLAGS,PROTOCOL,TOS,
\* TIMESTAMP_MIN,TIMESTAMP_MAX,PACKETS,BYTES
GoodCols ==
    <<Tok("ip4", 0), Tok("ip4", 0), Num(80), Num(443), Num(0), Num(6), Num(0),
      Num(0), Num(0), Num(7), Num(9)>>
DataLineOf(i) == [id |-> i, sep |-> ",", cols |-> GoodCols]
\* the header the exporter writes: column names separated by "|"
HeaderLine ==
    [id |-> 0, sep |-> "|",
     cols |-> <<Name("src_ip"), Name("packetTotalCount"), Name("octetTotalCount")>>]
\* a record whose destination port is 99999
BadLine == [id |-> -1, sep |-> ",", cols |-> [GoodCols EXCEPT ![4] = Num(99999)]]
EmptyLine == [id |-> -2, sep |-> ",", cols |-> <<>>]

\* isHeaderLine: the lower-cased line contains one of the keywords; every
\* column name does, no other token does
isHeaderLine(line) == \E i \in DOMAIN line.cols : line.cols[i].k \in ColumnNames

\* the index of the column named s in the header split by "|", or -1
\* (the switch over the trimmed fields in runIngest)
IndexOf(line, s) ==
    LET fields == Split(line, "|")
        hits == {i \in DOMAIN fields : fields[i].k = s}
    IN IF hits = {} THEN -1
       ELSE (CHOOSE i \in hits : \A j \in hits : j <= i) - 1

\* parseInt: TrimSpace, then strconv.ParseInt base 10
parseInt(f) == IF f.k = "int" THEN [v |-> f.v, ok |-> TRUE] ELSE [v |-> 0, ok |-> FALSE]
validPort(f) == LET r == parseInt(f) IN r.ok /\ r.v >= 0 /\ r.v <= 65535
validByte(f) == LET r == parseInt(f) IN r.ok /\ r.v >= 0 /\ r.v <= 255
validUint(f) == LET r == parseInt(f) IN r.ok /\ r.v >= 0
\* net.ParseIP(s) != nil && To4() != nil
validIPv4(f) == f.k = "ip4"

\* parseEpochSeconds: TrimSpace, then strconv.ParseFloat, which also reads
\* "NaN" and "Inf"; the result is refused when v < 0, which NaN is not
parseEpochSeconds(f) ==
    IF f.k = "int" /\ f.v >= 0 THEN [v |-> f, ok |-> TRUE]
    ELSE IF f.k \in {"nan", "inf"} THEN [v |-> f, ok |-> TRUE]
    ELSE [v |-> f, ok |-> FALSE]

\* a > b on float64 values: false whenever one side is NaN
Gt(a, b) ==
    IF a.k = "nan" \/ b.k = "nan" THEN FALSE
    ELSE IF a.k = "inf" THEN b.k # "inf"
    ELSE IF b.k = "inf" THEN FALSE
    ELSE a.v > b.v

\* ValidateLine(line, now): the checks in the order of the source; the answer
\* is ok with an empty reason, or the reason of the first check that fails
ValidateLine(line, t) ==
    LET fields == Split(line, ",")
        no(reason) == [ok |-> FALSE, reason |-> reason]
    IN IF Len(fields) # 11 THEN no("column count != 11")
       ELSE IF ~validIPv4(fields[1]) THEN no("SRC_IP is not valid")
       ELSE IF ~validIPv4(fields[2]) THEN no("DST_IP is not valid")
       ELSE IF ~validPort(fields[3]) THEN no("SRC_PORT is not valid")
       ELSE IF ~validPort(fields[4]) THEN no("DST_PORT is not valid")
       ELSE IF ~validByte(fields[5]) THEN no("TCP_FLAGS is not valid")
       ELSE IF ~validByte(fields[6]) THEN no("PROTOCOL is not valid")
       ELSE IF ~validByte(fields[7]) THEN no("TOS is not valid")
       ELSE IF ~parseEpochSeconds(fields[8]).ok THEN no("TIMESTAMP_MIN is not valid")
       ELSE IF ~parseEpochSeconds(fields[9]).ok THEN no("TIMESTAMP_MAX is not valid")
       ELSE IF Gt(parseEpochSeconds(fields[8]).v, parseEpochSeconds(fields[9]).v)
            THEN no("TIMESTAMP_MAX is not valid")
       ELSE IF Gt(parseEpochSeconds(fields[9]).v, Num(t))
            THEN no("TIMESTAMP_MAX is not valid")
       ELSE IF ~validUint(fields[10]) THEN no("PACKETS is not valid")
       ELSE IF ~validUint(fields[11]) THEN no("BYTES is not valid")
       ELSE [ok |-> TRUE, reason |-> ""]

\* parseCounts(line, pktIdx, byteIdx): the fields of the line split by "|";
\* an index past the end gives 0, 0, and so does text that is no integer
parseCounts(line, pktIdx, byteIdx) ==
    LET fields == Split(line, "|")
        num(f) == IF f.k = "int" THEN f.v ELSE 0
    IN IF pktIdx >= Len(fields) \/ byteIdx >= Len(fields) THEN <<0, 0>>
       ELSE <<num(fields[pktIdx + 1]), num(fields[byteIdx + 1])>>

\* stdin: a header, then the data lines with one rejected line among them
Stdin == <<HeaderLine, DataLineOf(1), BadLine>> \o [i \in 1..(NumLines - 1) |-> DataLineOf(i + 1)]

\* ------------------------------------------------------------- file names
PartSuffix == ".part"
FinalSuffix == ".csv.gz"
TmpSuffix == ".tmp"
NoPath == [ts |-> -1, idx |-> -1, sfx |-> ""]

\* strings.HasSuffix on the names that occur: a remote temporary name is the
\* final name plus ".tmp", so it ends in ".tmp" and not in ".csv.gz"
HasSuffix(name, s) == name.sfx = s \/ (s = TmpSuffix /\ name.sfx = FinalSuffix \o TmpSuffix)

\* closeAndRenameCurrentFile's target name
FinalPath(p) ==
    IF HasSuffix(p, PartSuffix) THEN [p EXCEPT !.sfx = FinalSuffix]
    ELSE [p EXCEPT !.sfx = p.sfx \o FinalSuffix]

\* uploadFile's remote temporary name: filename + ".tmp"
TempName(n) == [n EXCEPT !.sfx = n.sfx \o TmpSuffix]

\* a gzip file: header written, the lines whose compressed bytes reached the
\* file, trailer written
EmptyFile == [hdr |-> FALSE, lines |-> <<>>, trl |-> FALSE]
Size(c) == (IF c.hdr THEN 1 ELSE 0) + Len(c.lines) + (IF c.trl THEN 1 ELSE 0)
\* the first k bytes of a file
Truncate(c, k) ==
    [hdr |-> c.hdr /\ k >= 1,
     lines |-> SubSeq(c.lines, 1, Min(Len(c.lines), k - (IF c.hdr THEN 1 ELSE 0))),
     trl |-> c.trl /\ k >= Size(c)]

\* what an earlier run of the program may have left behind: an archive that was
\* delivered and renamed on the remote just before the run died, so that the
\* local copy was not deleted
OldArchive == [ts |-> -1, idx |-> 0, sfx |-> FinalSuffix]
OldFile == [hdr |-> TRUE, lines |-> <<NumLines + 1>>, trl |-> TRUE]

VARIABLES
    now,              \* wall clock, seconds
    faults,           \* failures injected so far
    chanTimeout,      \* cfg.IngestChanTimeoutMs (0: block forever)
    \* runIngest
    input, ingPc, ingLine, lineCount, headerProcessed, packetIdx, octetIdx,
    \* channels and context of main
    dataChan, chanClosed, ctxDone, ingestDone, writerDone,
    mainPc, closeErr,
    \* runBatchWriter
    wPc, batch, wExit,
    \* BatchWriter
    bw, bwOp, bwCaller,
    \* data directory and remote deposit
    local, remote,
    \* Uploader
    upPc, filesToUpload, scans, stopChan, doneChan,
    \* history (not program state)
    validated, sent, shed, ingLog, accepted, completed, ioError, rotLog,
    deleted, upDup, upStored, upSizeErr, upNote, shutdownBy, sentAtCancel

ingVars == <<input, ingPc, ingLine, lineCount, headerProcessed, packetIdx, octetIdx>>
mainVars == <<mainPc, closeErr>>
wVars == <<wPc, batch, wExit>>
bwVars == <<bw, bwOp, bwCaller, local>>
histIng == <<validated, sent, shed, ingLog>>
histBw == <<accepted, completed, ioError, rotLog>>
upVars == <<remote, upPc, filesToUpload, scans, doneChan>>
histUp == <<deleted, upDup, upStored, upSizeErr, upNote>>
histMain == <<shutdownBy, sentAtCancel>>
vars == <<now, faults, chanTimeout, ingVars, dataChan, chanClosed, ctxDone,
          ingestDone, writerDone, mainVars, wVars, bwVars, histIng, histBw,
          upVars, stopChan, histUp, histMain>>

\* ------------------------------------------------------------ BatchWriter
\* NewBatchWriter
NewBatchWriter ==
    [closed |-> FALSE, file |-> "nil", gzipWriter |-> "nil", buffer |-> "nil",
     buf |-> <<>>, gzPending |-> <<>>, currentPath |-> NoPath,
     writtenBytes |-> 0, startTime |-> 0, fileIndex |-> 0]

\* faulty variant: the size test with > in place of >=
shouldRotateStrict(b, t) ==
    \/ t - b.startTime >= rotateIntervalSec
    \/ b.writtenBytes > rotateSizeMB * MiB

\* faulty variant: the time test only
shouldRotateTimeOnly(b, t) == t - b.startTime >= rotateIntervalSec

\* shouldRotate: time since creation >= interval, or raw bytes >= threshold
shouldRotate(b, t) ==
    \/ t - b.startTime >= rotateIntervalSec
    \/ b.writtenBytes >= rotateSizeMB * MiB

\* faulty variant: rotateFile without bw.fileIndex++
rotateFileSameIndex(b, fs, t, fail) ==
    LET path == [ts |-> t, idx |-> b.fileIndex, sfx |-> PartSuffix] IN
    IF fail
    THEN [bw |-> [b EXCEPT !.currentPath = path], fs |-> fs, err |-> TRUE]
    ELSE [bw |-> [b EXCEPT !.currentPath = path, !.file = "open",
                           !.gzipWriter = "open", !.buffer = "ok",
                           !.buf = <<>>, !.gzPending = <<>>,
                           !.startTime = t, !.writtenBytes = 0],
          fs |-> Put(fs, path, EmptyFile), err |-> FALSE]

\* rotateFile: the new name is stored before os.Create is attempted
rotateFile(b, fs, t, fail) ==
    LET path == [ts |-> t, idx |-> b.fileIndex, sfx |-> PartSuffix] IN
    IF fail
    THEN [bw |-> [b EXCEPT !.currentPath = path], fs |-> fs, err |-> TRUE]
    ELSE [bw |-> [b EXCEPT !.currentPath = path, !.file = "open",
                           !.gzipWriter = "open", !.buffer = "ok",
                           !.buf = <<>>, !.gzPending = <<>>,
                           !.startTime = t, !.writtenBytes = 0,
                           !.fileIndex = b.fileIndex + 1],
          fs |-> Put(fs, path, EmptyFile), err |-> FALSE]

\* faulty variant: the batch written last line first
writeLinesReversed(b, lines) ==
    [b EXCEPT !.buf = b.buf \o [i \in 1..Len(lines) |-> lines[Len(lines) + 1 - i]],
              !.writtenBytes = b.writtenBytes + 2 * Len(lines)]

\* the write loop of WriteBatch: line + "\n" into the bufio buffer
writeLines(b, lines) ==
    [b EXCEPT !.buf = b.buf \o lines,
              !.writtenBytes = b.writtenBytes + 2 * Len(lines)]

\* bufio.Writer.Flush into the gzip writer: a sticky error is returned again,
\* an empty buffer is a no-op, otherwise the bytes go to the compressor, which
\* writes the gzip header on first use and passes on k of the lines it holds
bufferFlush(b, fs, fail, k) ==
    IF b.buffer = "err" THEN [bw |-> b, fs |-> fs, err |-> TRUE]
    ELSE IF b.buf = <<>> THEN [bw |-> b, fs |-> fs, err |-> FALSE]
    ELSE IF b.gzipWriter # "open"
         THEN [bw |-> [b EXCEPT !.buffer = "err"], fs |-> fs, err |-> TRUE]
    ELSE IF fail
         THEN [bw |-> [b EXCEPT !.buffer = "err", !.gzipWriter = "err"],
               fs |-> fs, err |-> TRUE]
    ELSE LET held == b.gzPending \o b.buf
             f == fs[b.currentPath]
         IN [bw |-> [b EXCEPT !.buf = <<>>,
                              !.gzPending = SubSeq(held, k + 1, Len(held))],
             fs |-> [fs EXCEPT ![b.currentPath] =
                        [f EXCEPT !.hdr = TRUE,
                                  !.lines = f.lines \o SubSeq(held, 1, k)]],
             err |-> FALSE]

\* faulty variant: a Close that writes the trailer but not the data the compressor holds
gzipCloseLossy(b, fs, fail) ==
    IF b.gzipWriter = "nil" THEN [bw |-> b, fs |-> fs, err |-> FALSE]
    ELSE IF b.gzipWriter = "err" \/ fail
         THEN [bw |-> [b EXCEPT !.gzipWriter = "err"], fs |-> fs, err |-> TRUE]
    ELSE [bw |-> [b EXCEPT !.gzipWriter = "nil", !.gzPending = <<>>],
          fs |-> [fs EXCEPT ![b.currentPath] =
                     [hdr |-> TRUE, lines |-> fs[b.currentPath].lines, trl |-> TRUE]],
          err |-> FALSE]

\* gzip.Writer.Close: the rest of the compressed data and the trailer
gzipClose(b, fs, fail) ==
    IF b.gzipWriter = "nil" THEN [bw |-> b, fs |-> fs, err |-> FALSE]
    ELSE IF b.gzipWriter = "err" \/ fail
         THEN [bw |-> [b EXCEPT !.gzipWriter = "err"], fs |-> fs, err |-> TRUE]
    ELSE LET f == fs[b.currentPath] IN
         [bw |-> [b EXCEPT !.gzipWriter = "nil", !.gzPending = <<>>],
          fs |-> [fs EXCEPT ![b.currentPath] =
                     [hdr |-> TRUE, lines |-> f.lines \o b.gzPending, trl |-> TRUE]],
          err |-> FALSE]

\* os.File.Close: a handle whose Close failed stays non-nil and fails again
fileClose(b, fs, fail) ==
    IF b.file = "nil" THEN [bw |-> b, fs |-> fs, err |-> FALSE]
    ELSE IF b.file = "bad" \/ fail
         THEN [bw |-> [b EXCEPT !.file = "bad"], fs |-> fs, err |-> TRUE]
    ELSE [bw |-> [b EXCEPT !.file = "nil"], fs |-> fs, err |-> FALSE]

\* faulty variant: publication by copying: the in-progress name stays behind
renameCopy(b, fs, fail) ==
    IF b.currentPath = NoPath THEN [bw |-> b, fs |-> fs, err |-> FALSE]
    ELSE IF b.currentPath \notin DOMAIN fs \/ fail
         THEN [bw |-> b, fs |-> fs, err |-> TRUE]
    ELSE [bw |-> b,
          fs |-> Put(fs, FinalPath(b.currentPath), fs[b.currentPath]),
          err |-> FALSE]

\* os.Rename of the in-progress name to the final name
renameCurrent(b, fs, fail) ==
    IF b.currentPath = NoPath THEN [bw |-> b, fs |-> fs, err |-> FALSE]
    ELSE IF b.currentPath \notin DOMAIN fs \/ fail
         THEN [bw |-> b, fs |-> fs, err |-> TRUE]
    ELSE [bw |-> b,
          fs |-> Put(Del(fs, b.currentPath), FinalPath(b.currentPath), fs[b.currentPath]),
          err |-> FALSE]

\* ------------------------------------------------------------------- Init
\* the program right after main has started its goroutines
InitProgram ==
    /\ chanTimeout \in {0, 1}
    /\ ingPc = "read" /\ ingLine = 0 /\ lineCount = 0
    /\ headerProcessed = FALSE /\ packetIdx = -1 /\ octetIdx = -1
    /\ ingLog = <<>>
    /\ dataChan = <<>> /\ chanClosed = FALSE /\ ctxDone = FALSE
    /\ ingestDone = "none" /\ writerDone = "none"
    /\ mainPc = "wait" /\ closeErr = FALSE
    /\ wPc = "select" /\ batch = <<>> /\ wExit = FALSE
    /\ bw = NewBatchWriter /\ bwOp = "idle" /\ bwCaller = "none"
    /\ upPc = "start" /\ filesToUpload = <<>> /\ scans = 0
    /\ stopChan = FALSE /\ doneChan = FALSE
    /\ deleted = <<>> /\ upDup = FALSE /\ upStored = FALSE /\ upSizeErr = FALSE
    /\ upNote = [mismatch |-> FALSE, cleaned |-> {}, exit |-> "none"]
    /\ shutdownBy = "none" /\ sentAtCancel = <<>>
    /\ validated = <<>> /\ sent = <<>> /\ shed = <<>> /\ accepted = <<>>
    /\ completed = <<>> /\ ioError = FALSE /\ rotLog = <<>>

\* the data directory and the remote deposit are empty, or hold what an
\* earlier run left behind
Init ==
    /\ InitProgram
    /\ now = 0 /\ faults = 0 /\ input = Stdin
    /\ \/ local = << >> /\ remote = << >>
       \/ /\ local = Put(<< >>, OldArchive, OldFile)
          /\ remote = Put(<< >>, OldArchive, [file |-> OldFile, origin |-> "rename"])

\* the outcomes a step that can fail may take: failure while the budget lasts
Outcomes(canFail) == IF canFail /\ faults < MaxFaults THEN BOOLEAN ELSE {FALSE}
Inject(fail) == faults' = faults + (IF fail THEN 1 ELSE 0)

\* -------------------------------------------------------------- the clock
Tick ==
    /\ mainPc # "exited" /\ now < MaxTime
    /\ now' = now + 1
    /\ UNCHANGED <<faults, chanTimeout, ingVars, dataChan, chanClosed, ctxDone,
                   ingestDone, writerDone, mainVars, wVars, bwVars, histIng, histBw,
                   upVars, stopChan, histUp, histMain>>

\* --------------------------------------------------------------- runIngest
notIng == <<now, chanTimeout, chanClosed, ctxDone, writerDone, mainVars,
            wVars, bwVars, histBw, upVars, stopChan, histUp, histMain>>

\* what runIngest did with a line it read: entry i is about line i of stdin
LogEntry(line, what, reason, lineNo, calls) ==
    [line |-> line, what |-> what, reason |-> reason, lineNo |-> lineNo, add |-> calls]

\* the calls of reporter.Add for a valid line: none unless both statistics
\* columns were located and parseCounts gives a positive count
AddCalls(line, pktIdx, byteIdx) ==
    IF pktIdx >= 0 /\ byteIdx >= 0
    THEN LET c == parseCounts(line, pktIdx, byteIdx)
         IN IF c[1] > 0 \/ c[2] > 0 THEN <<c>> ELSE <<>>
    ELSE <<>>

\* faulty variant: no line is taken as the header
HeaderDueNever(processed, line) == FALSE
\* faulty variant: the header test applied to every line
HeaderDueAlways(processed, line) == isHeaderLine(line)
\* if !headerProcessed { if isHeaderLine(line) {
HeaderDue(processed, line) == ~processed /\ isHeaderLine(line)

\* faulty variant: a verdict that is logged but not acted upon
RejectedNever(verdict) == FALSE
\* if ok, reason := validator.ValidateLine(line, time.Now()); !ok {
Rejected(verdict) == ~verdict.ok

\* scanner.Scan returns: a read error, the end of the input, or a line, which
\* goes through the empty-line, header and validation tests, up to the point
\* where it is to be sent.  A rejected line is written to the error file with
\* currentLineNo and counted.
Scan ==
    \E fail \in Outcomes(TRUE) :
    /\ Inject(fail)
    /\ IF fail
       THEN /\ ingPc' = "done" /\ ingestDone' = "readerr"
            /\ UNCHANGED <<input, ingLine, lineCount, headerProcessed,
                           packetIdx, octetIdx, histIng>>
       ELSE IF input = <<>>
       THEN /\ ingPc' = "done" /\ ingestDone' = "nil"
            /\ UNCHANGED <<input, ingLine, lineCount, headerProcessed,
                           packetIdx, octetIdx, histIng>>
       ELSE LET line == Head(input)
                currentLineNo == lineCount + 1
                v == ValidateLine(line, now)
            IN
            /\ input' = Tail(input)
            /\ ingestDone' = ingestDone
            /\ IF Len(line.cols) = 0
               THEN /\ ingPc' = "read"
                    /\ ingLog' = Append(ingLog, LogEntry(line, "empty", "", 0, <<>>))
                    /\ UNCHANGED <<ingLine, lineCount, headerProcessed,
                                   packetIdx, octetIdx, validated, sent, shed>>
               ELSE IF HeaderDue(headerProcessed, line)
               THEN /\ headerProcessed' = TRUE /\ ingPc' = "read"
                    /\ packetIdx' = IndexOf(line, "packetTotalCount")
                    /\ octetIdx' = IndexOf(line, "octetTotalCount")
                    /\ ingLog' = Append(ingLog,
                                        LogEntry(line, "header", "", currentLineNo, <<>>))
                    /\ UNCHANGED <<ingLine, lineCount, validated, sent, shed>>
               ELSE IF Rejected(v)
               THEN /\ lineCount' = lineCount + 1 /\ ingPc' = "read"
                    /\ ingLog' = Append(ingLog,
                                        LogEntry(line, "invalid", v.reason,
                                                 currentLineNo, <<>>))
                    /\ UNCHANGED <<ingLine, headerProcessed, packetIdx, octetIdx,
                                   validated, sent, shed>>
               ELSE /\ ingPc' = "send" /\ ingLine' = line.id
                    /\ validated' = Append(validated, line.id)
                    /\ ingLog' = Append(ingLog,
                                        LogEntry(line, "valid", "", currentLineNo,
                                                 AddCalls(line, packetIdx, octetIdx)))
                    /\ UNCHANGED <<lineCount, headerProcessed, packetIdx, octetIdx,
                                   sent, shed>>
    /\ dataChan' = dataChan

\* one turn of the read loop with input at hand: the ctx test, then Scan
IngestRead ==
    /\ ingPc = "read"
    /\ IF ctxDone
       THEN /\ ingPc' = "done" /\ ingestDone' = "ctx"
            /\ UNCHANGED <<faults, input, ingLine, lineCount, headerProcessed,
                           packetIdx, octetIdx, dataChan, histIng>>
       ELSE Scan
    /\ UNCHANGED notIng

\* the ctx test passed and scanner.Scan finds nothing to read yet: the
\* goroutine blocks in the read of stdin
IngestWait ==
    /\ ingPc = "read" /\ ~ctxDone
    /\ ingPc' = "scan"
    /\ UNCHANGED <<faults, input, ingLine, lineCount, headerProcessed,
                   packetIdx, octetIdx, ingestDone, dataChan, histIng>>
    /\ UNCHANGED notIng

\* the upstream writes or closes the pipe: the blocked scanner.Scan returns
IngestScan ==
    /\ ingPc = "scan"
    /\ Scan
    /\ UNCHANGED notIng

\* faulty variant: a timeout of zero or less treated like any other
blockNever(timeout) == FALSE
\* if chanTimeout <= 0: the send select has no timer case
blockForever(timeout) == timeout <= 0

\* faulty variant: a send that never finds room
SendReadyNever(ch) == FALSE
\* the case dataChan <- line can proceed: the buffer has room.  A sender parked
\* in the select is completed by the receive that makes room, so a parked
\* sender whose channel has room can only go on with the send.
SendReady(ch) == Len(ch) < ChanCap

\* case dataChan <- line
IngestSend ==
    /\ ingPc \in {"send", "blocked"} /\ ~chanClosed /\ SendReady(dataChan)
    /\ dataChan' = Append(dataChan, ingLine)
    /\ sent' = Append(sent, ingLine)
    /\ lineCount' = lineCount + 1
    /\ ingPc' = "read"
    /\ UNCHANGED <<faults, input, ingLine, headerProcessed, packetIdx, octetIdx,
                   ingestDone, validated, shed, ingLog>>
    /\ UNCHANGED notIng

\* case <-ctx.Done() of the send select
IngestCancelled ==
    /\ ingPc = "send" \/ (ingPc = "blocked" /\ ~SendReady(dataChan))
    /\ ctxDone
    /\ ingPc' = "done" /\ ingestDone' = "ctx"
    /\ UNCHANGED <<faults, input, ingLine, lineCount, headerProcessed,
                   packetIdx, octetIdx, dataChan, histIng>>
    /\ UNCHANGED notIng

\* no case of the send select is ready: the goroutine parks
IngestBlock ==
    /\ ingPc = "send" /\ ~ctxDone /\ ~SendReady(dataChan)
    /\ ingPc' = "blocked"
    /\ UNCHANGED <<faults, input, ingLine, lineCount, headerProcessed,
                   packetIdx, octetIdx, ingestDone, dataChan, histIng>>
    /\ UNCHANGED notIng

\* case <-time.After(chanTimeout): the line is dropped with a warning
IngestShed ==
    /\ ingPc = "blocked" /\ ~blockForever(chanTimeout) /\ ~SendReady(dataChan)
    /\ shed' = Append(shed, ingLine)
    /\ lineCount' = lineCount + 1
    /\ ingPc' = "read"
    /\ UNCHANGED <<faults, input, ingLine, headerProcessed, packetIdx, octetIdx,
                   ingestDone, dataChan, validated, sent, ingLog>>
    /\ UNCHANGED notIng

\* ---------------------------------------------------------- runBatchWriter
notW == <<now, chanTimeout, ingVars, chanClosed, ctxDone, ingestDone,
          mainVars, histIng, upVars, stopChan, histUp, histMain>>

\* faulty variant: flushBatch without the test len(batch) > 0
flushBatchAlways(b, exit) ==
    /\ batch' = b
    /\ wPc' = "WriteBatch" /\ wExit' = exit /\ writerDone' = writerDone

\* flushBatch, entered with batch b; exit says the loop returns nil afterwards
flushBatch(b, exit) ==
    /\ batch' = b
    /\ IF b # <<>>
       THEN /\ wPc' = "WriteBatch" /\ wExit' = exit /\ writerDone' = writerDone
       ELSE /\ wExit' = wExit
            /\ IF exit THEN wPc' = "done" /\ writerDone' = "nil"
                       ELSE wPc' = "select" /\ writerDone' = writerDone

\* case <-ctx.Done()
WriterCancelled ==
    /\ wPc = "select" /\ ctxDone
    /\ flushBatch(batch, TRUE)
    /\ UNCHANGED <<faults, dataChan, bwVars, histBw>>
    /\ UNCHANGED notW

\* case dataLine, ok := <-dataChan with ok
WriterReceive ==
    /\ wPc = "select" /\ dataChan # <<>>
    /\ dataChan' = Tail(dataChan)
    /\ LET b == Append(batch, Head(dataChan)) IN
       IF Len(b) >= BatchMax
       THEN flushBatch(b, FALSE)
       ELSE batch' = b /\ UNCHANGED <<wPc, wExit, writerDone>>
    /\ UNCHANGED <<faults, bwVars, histBw>>
    /\ UNCHANGED notW

\* case dataLine, ok := <-dataChan with !ok: closed and drained
WriterChanClosed ==
    /\ wPc = "select" /\ chanClosed /\ dataChan = <<>>
    /\ flushBatch(batch, TRUE)
    /\ UNCHANGED <<faults, dataChan, bwVars, histBw>>
    /\ UNCHANGED notW

\* case <-ticker.C (with an empty batch the tick changes nothing)
WriterTick ==
    /\ wPc = "select" /\ batch # <<>>
    /\ flushBatch(batch, FALSE)
    /\ UNCHANGED <<faults, dataChan, bwVars, histBw>>
    /\ UNCHANGED notW

\* bw.WriteBatch(batch) up to the rotation test
WriteBatch ==
    /\ wPc = "WriteBatch"
    /\ IF bw.closed
       THEN /\ wPc' = "done" /\ writerDone' = "err"
            /\ UNCHANGED <<faults, bwVars, histBw>>
       ELSE \E fail \in Outcomes(bw.file = "nil") :
            LET c == IF bw.file = "nil" THEN rotateFile(bw, local, now, fail)
                     ELSE [bw |-> bw, fs |-> local, err |-> FALSE]
                \* bw.buffer.Write on a bufio.Writer that has failed before
                r == [c EXCEPT !.err = c.err \/ (c.bw.buffer = "err" /\ batch # <<>>)]
                b2 == writeLines(r.bw, batch)
            IN /\ Inject(fail)
               /\ local' = r.fs
               /\ ioError' = (ioError \/ r.err)
               /\ IF r.err
                  THEN /\ bw' = r.bw /\ wPc' = "done" /\ writerDone' = "err"
                       /\ UNCHANGED <<bwOp, bwCaller, accepted, rotLog>>
                  ELSE /\ bw' = b2 /\ writerDone' = writerDone
                       /\ IF shouldRotate(b2, now)
                          THEN /\ wPc' = "rotating" /\ bwOp' = "flush"
                               /\ bwCaller' = "WriteBatch" /\ rotLog' = <<>>
                               /\ accepted' = accepted
                          ELSE /\ wPc' = "Flush" /\ accepted' = accepted \o batch
                               /\ UNCHANGED <<bwOp, bwCaller, rotLog>>
               /\ completed' = completed
    /\ UNCHANGED <<dataChan, batch, wExit>>
    /\ UNCHANGED notW

\* bw.Flush() and the rest of flushBatch
Flush ==
    /\ wPc = "Flush"
    /\ LET can == ~bw.closed /\ bw.buffer = "ok" /\ bw.buf # <<>> /\ bw.gzipWriter = "open"
           held == bw.gzPending \o bw.buf
       IN \E fail \in Outcomes(can), k \in IF can THEN 0..Len(held) ELSE {0} :
          LET r == IF bw.closed \/ bw.buffer = "nil"
                   THEN [bw |-> bw, fs |-> local, err |-> FALSE]
                   ELSE bufferFlush(bw, local, fail, k)
          IN /\ Inject(fail)
             /\ bw' = r.bw /\ local' = r.fs
             /\ ioError' = (ioError \/ r.err)
             /\ IF r.err
                THEN wPc' = "done" /\ writerDone' = "err" /\ batch' = batch
                ELSE /\ batch' = <<>>
                     /\ IF wExit THEN wPc' = "done" /\ writerDone' = "nil"
                                 ELSE wPc' = "select" /\ writerDone' = writerDone
    /\ UNCHANGED <<dataChan, wExit, bwOp, bwCaller, accepted, completed, rotLog>>
    /\ UNCHANGED notW

\* ------------------------------------- flushAndRotate and Close, step by step
notBw == <<now, chanTimeout, ingVars, dataChan, chanClosed, ctxDone,
           ingestDone, batch, wExit, histIng, upVars, stopChan, histUp, histMain>>

\* the running call (flushAndRotate inside WriteBatch, or Close) returns
BwReturn(err) ==
    /\ bwOp' = "idle" /\ bwCaller' = "none"
    /\ IF bwCaller = "WriteBatch"
       THEN /\ IF err THEN wPc' = "done" /\ writerDone' = "err" /\ accepted' = accepted
                      ELSE wPc' = "Flush" /\ writerDone' = writerDone
                           /\ accepted' = accepted \o batch
            /\ UNCHANGED mainVars
       ELSE /\ mainPc' = "Stop" /\ closeErr' = err
            /\ UNCHANGED <<wPc, writerDone, accepted>>

\* faulty variant: the rename done right after the flush, before the two closes
NextOpRenameFirst(op, caller) ==
    CASE op = "flush" -> "rename"
      [] op = "rename" -> "gzclose"
      [] op = "gzclose" -> "fclose"
      [] op = "fclose" -> IF caller = "WriteBatch" THEN "create" ELSE "return"
      [] op = "create" -> "return"

\* the order of the steps: flushAndRotate is Flush, closeAndRenameCurrentFile
\* (compressor, file handle, rename), rotateFile; Close is the same without
\* the last
NextOp(op, caller) ==
    CASE op = "flush" -> "gzclose"
      [] op = "gzclose" -> "fclose"
      [] op = "fclose" -> "rename"
      [] op = "rename" -> IF caller = "WriteBatch" THEN "create" ELSE "return"
      [] op = "create" -> "return"

\* a step's result r is stored; the call goes on with step next or returns
BwStep(r, next) ==
    /\ bw' = r.bw /\ local' = r.fs
    /\ ioError' = (ioError \/ r.err)
    /\ IF r.err THEN BwReturn(TRUE)
       ELSE IF next = "return" THEN BwReturn(FALSE)
       ELSE /\ bwOp' = next
            /\ UNCHANGED <<bwCaller, wPc, writerDone, accepted, mainVars>>

Logged(op, done, err) ==
    IF done
    THEN Append(rotLog, [op |-> op, ok |-> ~err,
                         closed |-> bw.gzipWriter = "nil" /\ bw.file = "nil"])
    ELSE rotLog

\* bw.buffer.Flush() of flushAndRotate, or of Close when buffer != nil
BufferFlush ==
    /\ bwOp = "flush"
    /\ LET skip == bwCaller = "Close" /\ bw.buffer = "nil"
           can == ~skip /\ bw.buffer = "ok" /\ bw.buf # <<>> /\ bw.gzipWriter = "open"
           held == bw.gzPending \o bw.buf
       IN \E fail \in Outcomes(can), k \in IF can THEN 0..Len(held) ELSE {0} :
          LET r == IF skip THEN [bw |-> bw, fs |-> local, err |-> FALSE]
                   ELSE bufferFlush(bw, local, fail, k)
          IN /\ Inject(fail)
             /\ BwStep(r, NextOp("flush", bwCaller))
             /\ rotLog' = Logged("flush", ~skip, r.err)
    /\ completed' = completed
    /\ UNCHANGED notBw

\* bw.gzipWriter.Close() when gzipWriter != nil
GzipClose ==
    /\ bwOp = "gzclose"
    /\ \E fail \in Outcomes(bw.gzipWriter = "open") :
       LET r == gzipClose(bw, local, fail) IN
       /\ Inject(fail)
       /\ BwStep(r, NextOp("gzclose", bwCaller))
       /\ rotLog' = Logged("gzclose", bw.gzipWriter # "nil", r.err)
    /\ completed' = completed
    /\ UNCHANGED notBw

\* bw.file.Close() when file != nil
FileClose ==
    /\ bwOp = "fclose"
    /\ \E fail \in Outcomes(bw.file = "open") :
       LET r == fileClose(bw, local, fail) IN
       /\ Inject(fail)
       /\ BwStep(r, NextOp("fclose", bwCaller))
       /\ rotLog' = Logged("fclose", bw.file # "nil", r.err)
    /\ completed' = completed
    /\ UNCHANGED notBw

\* os.Rename(currentPath, finalPath) when currentPath != ""
Rename ==
    /\ bwOp = "rename"
    /\ \E fail \in Outcomes(bw.currentPath \in DOMAIN local) :
       LET r == renameCurrent(bw, local, fail)
           done == bw.currentPath # NoPath
       IN /\ Inject(fail)
          /\ BwStep(r, NextOp("rename", bwCaller))
          /\ rotLog' = Logged("rename", done, r.err)
          /\ completed' = IF done /\ ~r.err
                          THEN Append(completed,
                                      [name |-> FinalPath(bw.currentPath),
                                       file |-> local[bw.currentPath],
                                       closed |-> bw.gzipWriter = "nil" /\ bw.file = "nil"])
                          ELSE completed
    /\ UNCHANGED notBw

\* bw.rotateFile() at the end of flushAndRotate
Create ==
    /\ bwOp = "create"
    /\ \E fail \in Outcomes(TRUE) :
       LET r == rotateFile(bw, local, now, fail) IN
       /\ Inject(fail)
       /\ BwStep(r, NextOp("create", bwCaller))
    /\ UNCHANGED <<completed, rotLog>>
    /\ UNCHANGED notBw

\* -------------------------------------------------------------------- main
notMain == <<now, faults, chanTimeout, ingVars, dataChan, ingestDone,
             writerDone, wVars, local, histIng, histBw, upVars, histUp>>

\* case sig := <-sigChan: SIGINT or SIGTERM arrives and the case is taken
\* (also when ingestDone or writerDone is ready as well): cancel()
MainSignal ==
    /\ mainPc = "wait"
    /\ ctxDone' = TRUE /\ mainPc' = "sigWaitIngest"
    /\ shutdownBy' = "signal" /\ sentAtCancel' = sent
    /\ UNCHANGED <<chanClosed, closeErr, bw, bwOp, bwCaller, stopChan>>
    /\ UNCHANGED notMain

\* faulty variant: close(dataChan) right after cancel(), without <-ingestDone
MainSignalCloseAtOnce ==
    /\ mainPc = "sigWaitIngest"
    /\ chanClosed' = TRUE /\ mainPc' = "waitWriter"
    /\ UNCHANGED histMain
    /\ UNCHANGED <<ctxDone, closeErr, bw, bwOp, bwCaller, stopChan>>
    /\ UNCHANGED notMain

\* <-ingestDone; close(dataChan) of the signal case
MainSignalIngestDone ==
    /\ mainPc = "sigWaitIngest" /\ ingestDone # "none"
    /\ chanClosed' = TRUE /\ mainPc' = "waitWriter"
    /\ UNCHANGED histMain
    /\ UNCHANGED <<ctxDone, closeErr, bw, bwOp, bwCaller, stopChan>>
    /\ UNCHANGED notMain

\* case err := <-ingestDone: close(dataChan)
MainIngestDone ==
    /\ mainPc = "wait" /\ ingestDone # "none"
    /\ chanClosed' = TRUE /\ mainPc' = "waitWriter"
    /\ shutdownBy' = "ingest" /\ sentAtCancel' = sentAtCancel
    /\ UNCHANGED <<ctxDone, closeErr, bw, bwOp, bwCaller, stopChan>>
    /\ UNCHANGED notMain

\* <-writerDone of the signal case and of the ingestDone case
MainWriterJoined ==
    /\ mainPc = "waitWriter" /\ writerDone # "none"
    /\ mainPc' = "Close"
    /\ UNCHANGED histMain
    /\ UNCHANGED <<chanClosed, ctxDone, closeErr, bw, bwOp, bwCaller, stopChan>>
    /\ UNCHANGED notMain

\* case err := <-writerDone: cancel()
MainWriterDone ==
    /\ mainPc = "wait" /\ writerDone # "none"
    /\ ctxDone' = TRUE /\ mainPc' = "wdWaitIngest"
    /\ shutdownBy' = "writer" /\ sentAtCancel' = sent
    /\ UNCHANGED <<chanClosed, closeErr, bw, bwOp, bwCaller, stopChan>>
    /\ UNCHANGED notMain

\* <-ingestDone of the writerDone case (dataChan is not closed here)
MainWriterDoneIngestDone ==
    /\ mainPc = "wdWaitIngest" /\ ingestDone # "none"
    /\ mainPc' = "Close"
    /\ UNCHANGED histMain
    /\ UNCHANGED <<chanClosed, ctxDone, closeErr, bw, bwOp, bwCaller, stopChan>>
    /\ UNCHANGED notMain

\* bw.Close(): the closed test and flag; the steps follow one by one
\* faulty variant: Close without the test of bw.closed
CloseAgain ==
    /\ mainPc = "Close"
    /\ bw' = [bw EXCEPT !.closed = TRUE]
    /\ bwOp' = "flush" /\ bwCaller' = "Close" /\ mainPc' = "closing"
    /\ rotLog' = <<>> /\ closeErr' = closeErr
    /\ UNCHANGED <<now, faults, chanTimeout, ingVars, dataChan, chanClosed, ctxDone,
                   ingestDone, writerDone, wVars, local, histIng,
                   accepted, completed, ioError, upVars, stopChan, histUp, histMain>>

Close ==
    /\ mainPc = "Close"
    /\ IF bw.closed
       THEN /\ mainPc' = "Stop" /\ closeErr' = FALSE
            /\ UNCHANGED <<bw, bwOp, bwCaller, rotLog>>
       ELSE /\ bw' = [bw EXCEPT !.closed = TRUE]
            /\ bwOp' = "flush" /\ bwCaller' = "Close" /\ mainPc' = "closing"
            /\ rotLog' = <<>> /\ closeErr' = closeErr
    /\ UNCHANGED <<now, faults, chanTimeout, ingVars, dataChan, chanClosed, ctxDone,
                   ingestDone, writerDone, wVars, local, histIng,
                   accepted, completed, ioError, upVars, stopChan, histUp, histMain>>

\* up.Stop(): close(u.stopChan)
MainStop ==
    /\ mainPc = "Stop"
    /\ stopChan' = TRUE /\ mainPc' = "waitUploader"
    /\ UNCHANGED histMain
    /\ UNCHANGED <<chanClosed, ctxDone, closeErr, bw, bwOp, bwCaller>>
    /\ UNCHANGED notMain

\* faulty variant: a receive that does not wait for the close
ReceivedAtOnce(ch) == TRUE
\* a receive from a channel that is only ever closed: proceeds once it is closed
Received(ch) == ch

\* <-u.doneChan of Stop, then main returns (with the deferred cancel)
MainExit ==
    /\ mainPc = "waitUploader" /\ Received(doneChan)
    /\ mainPc' = "exited" /\ ctxDone' = TRUE
    /\ UNCHANGED histMain
    /\ UNCHANGED <<chanClosed, closeErr, bw, bwOp, bwCaller, stopChan>>
    /\ UNCHANGED notMain

\* ---------------------------------------------------------------- Uploader
notUp == <<now, chanTimeout, ingVars, dataChan, chanClosed, ctxDone,
           ingestDone, writerDone, mainVars, wVars, bw, bwOp, bwCaller, histIng,
           histBw, stopChan, histMain>>

\* the order of os.ReadDir: by file name, that is by timestamp, then index
NameLess(a, b) == a.ts < b.ts \/ (a.ts = b.ts /\ a.idx < b.idx)
RECURSIVE SortNames(_)
SortNames(S) ==
    IF S = {} THEN <<>>
    ELSE LET m == CHOOSE x \in S : \A y \in S \ {x} : NameLess(x, y)
         IN <<m>> \o SortNames(S \ {m})

\* faulty variant: a scan without the suffix filter
SelectedAny(name) == TRUE
\* scanAndUpload's selection: regular files whose name ends in ".csv.gz"
Selected(name) == HasSuffix(name, FinalSuffix)
\* faulty variant: a cleanup that selects nothing
IsRemoteTempNever(name) == FALSE
\* cleanupRemoteTempFiles's selection: remote names ending in ".tmp"
IsRemoteTemp(name) == HasSuffix(name, TmpSuffix)
\* faulty variant: a duplicate check that never recognises a delivered file
NeverDelivered(remoteSize, localSize) == FALSE
\* faulty variant: any remote file of that name counts as delivered
AnyDelivered(remoteSize, localSize) == TRUE
\* uploadFile's duplicate check on the sizes: true means "already delivered"
AlreadyDelivered(remoteSize, localSize) == remoteSize = localSize
\* faulty variant: the transfer written to the final name itself
StorFinal(filename) == filename
\* the remote path conn.Stor writes to in uploadFile
StorTarget(filename) == TempName(filename)

\* faulty variant: the scan gives up at the first file that is over
NextFileAbort ==
    /\ filesToUpload' = <<>>
    /\ upPc' = "idle"

\* the loop over filesToUpload moves to the next file, or scanAndUpload returns
NextFile ==
    /\ filesToUpload' = Tail(filesToUpload)
    /\ upPc' = IF Tail(filesToUpload) = <<>> THEN "idle" ELSE "file"

\* history of the uploadFile call in progress, cleared when it is over
CallOver ==
    /\ upDup' = FALSE /\ upStored' = FALSE /\ upSizeErr' = FALSE
    /\ upNote' = [upNote EXCEPT !.mismatch = FALSE]

\* run: the first scan at once, later ones on the ticker; each scan begins with
\* the ctx test and cleanupRemoteTempFiles, whose failures are only logged: a
\* failed connection or listing keeps every temporary file, a failed delete
\* keeps that one (kept)
UpScanStart ==
    /\ mainPc # "exited"
    /\ upPc = "start" \/ (upPc = "idle" /\ scans < MaxScans)
    /\ scans' = scans + 1
    /\ IF ctxDone
       THEN upPc' = "idle" /\ UNCHANGED <<faults, remote, upNote>>
       ELSE LET temps == {n \in DOMAIN remote : IsRemoteTemp(n)} IN
            \E kept \in SUBSET temps :
               /\ kept # {} => faults < MaxFaults
               /\ Inject(kept # {})
               /\ remote' = [n \in (DOMAIN remote) \ (temps \ kept) |-> remote[n]]
               /\ upNote' = [upNote EXCEPT !.cleaned = temps \ kept]
               /\ upPc' = "readdir"
    /\ UNCHANGED <<local, filesToUpload, doneChan, deleted, upDup, upStored, upSizeErr>>
    /\ UNCHANGED notUp

\* os.ReadDir and the suffix filter
UpReadDir ==
    /\ upPc = "readdir"
    /\ \E fail \in Outcomes(TRUE) :
       LET sel == {n \in DOMAIN local : Selected(n)} IN
       /\ Inject(fail)
       /\ IF fail \/ sel = {}
          THEN upPc' = "idle" /\ filesToUpload' = <<>>
          ELSE upPc' = "file" /\ filesToUpload' = SortNames(sel)
    /\ UNCHANGED <<local, remote, scans, doneChan, histUp>>
    /\ UNCHANGED notUp

\* the loop body up to conn.Stor: ctx test, os.Stat, connect and log in,
\* ensureRemoteDir, the duplicate check with its delete, the stale-temp delete,
\* os.Open.  o names the one call that fails, if any.
UpFileStart ==
    /\ upPc = "file"
    /\ LET cur == Head(filesToUpload)
           tmp == TempName(cur)
           dup == cur \in DOMAIN remote /\ remote[cur].file = local[cur]
           mis == cur \in DOMAIN remote /\ Size(remote[cur].file) # Size(local[cur])
       IN
       IF ctxDone
       THEN /\ upPc' = "idle" /\ filesToUpload' = <<>> /\ CallOver
            /\ UNCHANGED <<faults, remote>>
       ELSE \E o \in {"ok"} \cup
               (IF faults < MaxFaults
                THEN {"stat", "conn", "open"}
                     \cup (IF cur \in DOMAIN remote THEN {"size"} ELSE {})
                     \cup (IF cur \in DOMAIN remote
                              /\ Size(remote[cur].file) # Size(local[cur])
                           THEN {"delFinal"} ELSE {})
                     \cup (IF tmp \in DOMAIN remote THEN {"delTemp"} ELSE {})
                ELSE {}) :
            LET localSize == Size(local[cur])
                seen == cur \in DOMAIN remote /\ o # "size"
                r1 == IF seen /\ o # "delFinal" THEN Del(remote, cur) ELSE remote
                r2 == IF tmp \in DOMAIN r1 /\ o # "delTemp" THEN Del(r1, tmp) ELSE r1
            IN /\ Inject(o # "ok")
               /\ IF o \in {"stat", "conn"}
                  THEN NextFile /\ CallOver /\ remote' = remote
                  ELSE IF seen /\ AlreadyDelivered(Size(remote[cur].file), localSize)
                  THEN /\ upPc' = "remove" /\ UNCHANGED <<remote, filesToUpload>>
                       /\ upDup' = dup /\ upStored' = FALSE /\ upSizeErr' = FALSE
                       /\ upNote' = [upNote EXCEPT !.mismatch = mis]
                  ELSE IF o = "open"
                  THEN NextFile /\ CallOver /\ remote' = r2
                  ELSE /\ upPc' = "stor" /\ remote' = r2
                       /\ filesToUpload' = filesToUpload
                       /\ upDup' = dup /\ upStored' = FALSE
                       /\ upSizeErr' = (o = "size")
                       /\ upNote' = [upNote EXCEPT !.mismatch = mis]
    /\ UNCHANGED <<local, scans, doneChan, deleted>>
    /\ UNCHANGED notUp

\* conn.Stor(remoteTempPath, file): k bytes arrive; a short transfer is
\* reported as an error or passes unnoticed
UpStor ==
    /\ upPc = "stor"
    /\ LET cur == Head(filesToUpload)
           full == Size(local[cur])
       IN \E k \in 0..full, err \in BOOLEAN :
          /\ (k < full \/ err) => faults < MaxFaults
          /\ Inject(k < full \/ err)
          /\ remote' = Put(remote, StorTarget(cur),
                           [file |-> Truncate(local[cur], k), origin |-> "stor"])
          /\ IF err THEN NextFile /\ CallOver
             ELSE /\ upPc' = "verify" /\ filesToUpload' = filesToUpload
                  /\ upStored' = TRUE /\ UNCHANGED <<upDup, upSizeErr, upNote>>
    /\ UNCHANGED <<local, scans, doneChan, deleted>>
    /\ UNCHANGED notUp

\* faulty variant: no size comparison after the transfer
VerifiedAlways(remoteTempSize, localSize) == TRUE
\* faulty variant: a size comparison that never passes
VerifiedNever(remoteTempSize, localSize) == FALSE
\* what the size comparison after the transfer lets pass
Verified(remoteTempSize, localSize) == remoteTempSize = localSize

\* conn.FileSize(remoteTempPath), the comparison, conn.Rename to the final
\* name; a rename onto an existing final name replaces it or is refused
UpVerifyRename ==
    /\ upPc = "verify"
    /\ LET cur == Head(filesToUpload)
           tmp == TempName(cur)
       IN \E fail \in Outcomes(TRUE), refused \in BOOLEAN :
          /\ refused => (cur \in DOMAIN remote /\ ~fail)
          /\ Inject(fail)
          /\ IF \/ fail \/ refused \/ tmp \notin DOMAIN remote
                \/ ~Verified(Size(remote[tmp].file), Size(local[cur]))
             THEN NextFile /\ CallOver /\ remote' = remote
             ELSE /\ remote' = Put(Del(remote, tmp), cur,
                                   [file |-> remote[tmp].file, origin |-> "rename"])
                  /\ upPc' = "remove" /\ filesToUpload' = filesToUpload
                  /\ UNCHANGED <<upDup, upStored, upSizeErr, upNote>>
    /\ UNCHANGED <<local, scans, doneChan, deleted>>
    /\ UNCHANGED notUp

\* os.Remove(filePath) after uploadFile returned nil; a failure is logged
UpRemove ==
    /\ upPc = "remove"
    /\ LET cur == Head(filesToUpload) IN
       \E fail \in Outcomes(TRUE) :
          /\ Inject(fail)
          /\ local' = IF fail THEN local ELSE Del(local, cur)
          /\ deleted' = IF fail THEN deleted
                        ELSE Append(deleted, [name |-> cur, file |-> local[cur]])
          /\ NextFile /\ CallOver
    /\ UNCHANGED <<remote, scans, doneChan>>
    /\ UNCHANGED notUp

\* case <-u.stopChan / case <-u.ctx.Done() of run's select: close(doneChan)
UpExit ==
    /\ upPc = "idle" /\ (stopChan \/ ctxDone)
    /\ upPc' = "done" /\ doneChan' = TRUE
    /\ \E by \in {"stop", "ctx"} :
          /\ by = "stop" => stopChan
          /\ by = "ctx" => ctxDone
          /\ upNote' = [upNote EXCEPT !.exit = by]
    /\ UNCHANGED <<faults, local, remote, filesToUpload, scans, deleted, upDup,
                   upStored, upSizeErr>>
    /\ UNCHANGED notUp

Next ==
    \/ Tick
    \/ IngestRead \/ IngestSend \/ IngestCancelled \/ IngestBlock \/ IngestShed
    \/ WriterCancelled \/ WriterReceive \/ WriterChanClosed \/ WriterTick
    \/ WriteBatch \/ Flush
    \/ BufferFlush \/ GzipClose \/ FileClose \/ Rename \/ Create
    \/ MainSignal \/ MainSignalIngestDone \/ MainIngestDone \/ MainWriterJoined
    \/ MainWriterDone \/ MainWriterDoneIngestDone \/ Close \/ MainStop \/ MainExit
    \/ UpScanStart \/ UpReadDir \/ UpFileStart \/ UpStor \/ UpVerifyRename
    \/ UpRemove \/ UpExit

Spec == Init /\ [][Next]_vars

\* ------------------------------------------- the Uploader on a quiet input
\* The program started over a data directory and a remote deposit that hold
\* what earlier runs left behind, while nothing arrives on stdin: runIngest
\* sits in scanner.Scan, the writer loop has nothing to write, and only the
\* Uploader, and a signal, make steps.
OldArchive2 == [ts |-> -1, idx |-> 1, sfx |-> FinalSuffix]
OldFile2 == [hdr |-> TRUE, lines |-> <<NumLines + 2, NumLines + 3>>, trl |-> TRUE]
\* a copy that lost its end: what a cut transfer leaves
ShortOf(f) == Truncate(f, Size(f) - 1)

\* what the diagnostics collector writes into the data directory:
\* diag_<host>_<ts>.json.gz, a finished gzip file
DiagSuffix == ".json.gz"
DiagName == [ts |-> -2, idx |-> 0, sfx |-> DiagSuffix]
DiagFile == [hdr |-> TRUE, lines |-> <<NumLines + 4>>, trl |-> TRUE]

\* data directories an earlier run may leave: one or two completed archives,
\* and a file of the diagnostics collector
LeftLocal ==
    {Put(<< >>, OldArchive, OldFile),
     Put(Put(<< >>, OldArchive, OldFile), OldArchive2, OldFile2),
     Put(Put(<< >>, OldArchive, OldFile), DiagName, DiagFile)}

\* what the remote may hold for a local archive n with content f: nothing, the
\* delivered copy, or a file of another size from a bad earlier upload; and,
\* besides, a temporary file of an interrupted transfer
LeftFor(n, f) ==
    LET finals == {<< >>,
                   Put(<< >>, n, [file |-> f, origin |-> "rename"]),
                   Put(<< >>, n, [file |-> ShortOf(f), origin |-> "left"])}
    IN finals \cup
       {Put(r, TempName(n), [file |-> ShortOf(f), origin |-> "left"]) : r \in finals}

Merge(f, g) == [x \in (DOMAIN f) \cup (DOMAIN g) |-> IF x \in DOMAIN f THEN f[x] ELSE g[x]]

InitUp ==
    /\ InitProgram
    /\ now = 0 /\ faults = 0 /\ input = Stdin
    /\ local \in LeftLocal
    /\ \E r1 \in LeftFor(OldArchive, OldFile) :
          IF OldArchive2 \in DOMAIN local
          THEN \E r2 \in LeftFor(OldArchive2, OldFile2) : remote = Merge(r1, r2)
          ELSE remote = r1

NextUp ==
    \/ UpScanStart \/ UpReadDir \/ UpFileStart \/ UpStor \/ UpVerifyRename
    \/ UpRemove \/ UpExit \/ MainSignal

SpecUp == InitUp /\ [][NextUp]_vars

\* the Uploader's goroutine is scheduled and its ticker fires
FairUp ==
    /\ WF_vars(UpScanStart) /\ WF_vars(UpReadDir) /\ WF_vars(UpFileStart)
    /\ WF_vars(UpStor) /\ WF_vars(UpVerifyRename) /\ WF_vars(UpRemove)

SpecUpLive == SpecUp /\ FairUp

\* ------------------------------- a deposit that holds a namesake of equal size
\* a file with as many bytes as f and other bytes
SameSizeOf(f) == [f EXCEPT !.lines = [i \in DOMAIN f.lines |-> f.lines[i] + 100]]

\* The Uploader, as in SpecUp, over one left-behind archive, when the remote
\* deposit holds under the archive's name nothing, the delivered copy, or a
\* file of the same size with other content (the archive of another sender
\* or of an earlier instance that used the same name).
InitSame ==
    /\ InitProgram
    /\ now = 0 /\ faults = 0 /\ input = Stdin
    /\ local = Put(<< >>, OldArchive, OldFile)
    /\ remote \in {<< >>,
                  Put(<< >>, OldArchive, [file |-> OldFile, origin |-> "rename"]),
                  Put(<< >>, OldArchive, [file |-> SameSizeOf(OldFile), origin |-> "left"])}

SpecSame == InitSame /\ [][NextUp]_vars

\* ------------------------------------------- the pipeline reading a pipe
\* stdin is a pipe whose upstream writes when it pleases: a read may find the
\* next line (or the end) at hand, or block until the upstream writes, which
\* it may never do.  The data directory holds nothing or an archive an
\* earlier run left.
InitDown ==
    /\ InitProgram
    /\ now = 0 /\ faults = 0
    /\ input = <<DataLineOf(1), DataLineOf(2)>>
    /\ \/ local = << >> /\ remote = << >>
       \/ local = Put(<< >>, OldArchive, OldFile) /\ remote = << >>

NextDown == Next \/ IngestWait \/ IngestScan

SpecDown == InitDown /\ [][NextDown]_vars

\* what each goroutine does of its own accord once it can: all its steps but
\* the arrival of input (IngestScan) and of a signal (MainSignal), which are
\* the environment's
IngestStep == IngestRead \/ IngestWait \/ IngestSend \/ IngestCancelled \/ IngestShed
WriterStep ==
    \/ WriterCancelled \/ WriterReceive \/ WriterChanClosed \/ WriterTick
    \/ WriteBatch \/ Flush
BatchWriterStep == BufferFlush \/ GzipClose \/ FileClose \/ Rename \/ Create
MainStep ==
    \/ MainSignalIngestDone \/ MainIngestDone \/ MainWriterJoined \/ MainWriterDone
    \/ MainWriterDoneIngestDone \/ Close \/ MainStop \/ MainExit
UploaderStep ==
    \/ UpScanStart \/ UpReadDir \/ UpFileStart \/ UpStor \/ UpVerifyRename
    \/ UpRemove \/ UpExit

\* every goroutine is scheduled
FairDown ==
    /\ WF_vars(IngestStep) /\ WF_vars(WriterStep) /\ WF_vars(BatchWriterStep)
    /\ WF_vars(MainStep) /\ WF_vars(UploaderStep)

SpecDownLive == SpecDown /\ FairDown

\* --------------------------------------------- the Ingestor on any input
\* the lines an upstream may write: headers with "|" and with ",", records
\* that pass, a record with a bad port, one whose window ends at MaxTime, a
\* record in the header's own "|" format, the empty line
HeaderComma ==
    [id |-> -3, sep |-> ",",
     cols |-> <<Name("src_ip"), Name("packetTotalCount"), Name("octetTotalCount")>>]
LateLine == [id |-> -4, sep |-> ",", cols |-> [GoodCols EXCEPT ![9] = Num(MaxTime)]]
PipeRecord == [id |-> -5, sep |-> "|", cols |-> <<Tok("ip4", 0), Num(7), Num(9)>>]
Alphabet ==
    {HeaderLine, HeaderComma, DataLineOf(1), DataLineOf(2), BadLine, LateLine,
     PipeRecord, EmptyLine}

Inputs == UNION {[1..n -> Alphabet] : n \in 0..MaxIn}

\* The pipeline on an input drawn from Inputs, at any time of the clock, in a
\* run without failures and without a signal: the Ingestor, the writer loop
\* and the BatchWriter.
InitIng ==
    /\ InitProgram
    /\ now \in 0..MaxTime /\ faults = MaxFaults
    /\ input \in Inputs
    /\ local = << >> /\ remote = << >>

NextIng ==
    \/ IngestRead \/ IngestSend \/ IngestBlock \/ IngestShed
    \/ WriterReceive \/ WriterTick \/ WriteBatch \/ Flush
    \/ BufferFlush \/ GzipClose \/ FileClose \/ Rename \/ Create

SpecIng == InitIng /\ [][NextIng]_vars

\* ------------------------------------- a restart on a used data directory
\* what an earlier instance left in the data directory: the file it was
\* writing when it died, or an archive it completed that is not uploaded
\* yet.  An instance numbers its files from 0 and names them by the second
\* of local time, so the earlier instance's first file of second 0 has the
\* name this instance gives its first file when it opens it in a second
\* that reads the same (a restart within the second, a clock set back).
Orphan == [ts |-> 0, idx |-> 0, sfx |-> PartSuffix]
OrphanFile == [hdr |-> TRUE, lines |-> <<8>>, trl |-> FALSE]
EarlierArchive == [ts |-> 0, idx |-> 0, sfx |-> FinalSuffix]
EarlierFile == [hdr |-> TRUE, lines |-> <<9>>, trl |-> TRUE]

LeftByEarlier ==
    {Put(<< >>, Orphan, OrphanFile),
     Put(<< >>, EarlierArchive, EarlierFile),
     Put(<< >>, OldArchive, OldFile)}

\* the pipeline of a new instance, started at second 0 or 1, in a run
\* without failures and without a signal
InitRestart ==
    /\ InitProgram
    /\ now \in 0..MaxTime /\ faults = MaxFaults
    /\ input = Stdin
    /\ local \in LeftByEarlier /\ remote = << >>

NextRestart ==
    \/ Tick
    \/ IngestRead \/ IngestSend \/ IngestBlock \/ IngestShed
    \/ WriterReceive \/ WriterTick \/ WriteBatch \/ Flush
    \/ BufferFlush \/ GzipClose \/ FileClose \/ Rename \/ Create

SpecRestart == InitRestart /\ [][NextRestart]_vars

\* ------------------------------------------ the BatchWriter under any caller
\* A caller of the exported methods WriteBatch, Flush and Close, in any
\* order and any number, one call at a time (bw.mu): it writes batches of
\* consecutive lines, at most NumLines lines in all, and flushes after each
\* WriteBatch that succeeded, as flushBatch does.
CallerIdle ==
    /\ wPc \in {"select", "done"} /\ bwOp = "idle" /\ mainPc \in {"wait", "Stop"}

CallWriteBatch ==
    /\ CallerIdle /\ Len(accepted) < NumLines
    /\ \E n \in 1..BatchMax : batch' = [i \in 1..n |-> Len(accepted) + i]
    /\ wPc' = "WriteBatch" /\ wExit' = FALSE /\ writerDone' = "none"
    /\ UNCHANGED <<faults, dataChan, bwVars, histBw>>
    /\ UNCHANGED notW

CallFlush ==
    /\ CallerIdle
    /\ batch' = <<>>
    /\ wPc' = "Flush" /\ wExit' = FALSE /\ writerDone' = "none"
    /\ UNCHANGED <<faults, dataChan, bwVars, histBw>>
    /\ UNCHANGED notW

CallClose ==
    /\ CallerIdle
    /\ mainPc' = "Close"
    /\ UNCHANGED histMain
    /\ UNCHANGED <<chanClosed, ctxDone, closeErr, bw, bwOp, bwCaller, stopChan>>
    /\ UNCHANGED notMain

InitCalls ==
    /\ InitProgram
    /\ now = 0 /\ faults = 0 /\ input = <<>>
    /\ local = << >> /\ remote = << >>

NextCalls ==
    \/ Tick
    \/ CallWriteBatch \/ CallFlush \/ CallClose
    \/ WriteBatch \/ Flush \/ Close
    \/ BufferFlush \/ GzipClose \/ FileClose \/ Rename \/ Create

SpecCalls == InitCalls /\ [][NextCalls]_vars

\* --------------------------------------------------- ValidateLine at work
\* the values a column may hold, by column
ColumnValues(i) ==
    CASE i \in {1, 2} -> {Tok("ip4", 0), Tok("ip6", 0), Tok("text", 0)}
      [] i \in {3, 4} -> {Num(-1), Num(0), Num(65535), Num(65536), Num(99999),
                          Tok("text", 0), Tok("blank", 0)}
      [] i \in {5, 6, 7} -> {Num(-1), Num(0), Num(255), Num(256), Tok("text", 0)}
      [] i \in {8, 9} -> {Num(-1), Num(0), Num(MaxTime), Num(MaxTime + 1),
                          Tok("nan", 0), Tok("inf", 0), Tok("text", 0)}
      [] i \in {10, 11} -> {Num(-1), Num(0), Num(7), Tok("text", 0)}

\* the records that differ from a well-formed one in at most two columns, and
\* the same with the last column cut off or a column added
Records ==
    {[[GoodCols EXCEPT ![i] = a] EXCEPT ![j] = b] :
        <<i, j, a, b>> \in
            {q \in (1..11) \X (1..11) \X
                   (UNION {ColumnValues(k) : k \in 1..11}) \X
                   (UNION {ColumnValues(k) : k \in 1..11}) :
                /\ q[1] <= q[2]
                /\ q[3] \in ColumnValues(q[1]) /\ q[4] \in ColumnValues(q[2])
                /\ q[1] = q[2] => q[3] = q[4]}}
ValLines ==
    {[id |-> 1, sep |-> ",", cols |-> c] : c \in Records}
    \cup {[id |-> 1, sep |-> ",", cols |-> SubSeq(c, 1, 10)] :
            c \in {[GoodCols EXCEPT ![i] = a] : i \in {1, 4, 9}, a \in ColumnValues(1)}}
    \cup {[id |-> 1, sep |-> ",", cols |-> c \o <<Num(0)>>] :
            c \in {[GoodCols EXCEPT ![i] = a] : i \in {1, 4, 9}, a \in ColumnValues(1)}}

\* runIngest reads one line drawn from ValLines, at any time of the clock
InitVal ==
    /\ InitProgram
    /\ now \in 0..MaxTime /\ faults = MaxFaults
    /\ \E l \in ValLines : input = <<l>>
    /\ local = << >> /\ remote = << >>

NextVal == IngestRead \/ IngestSend

SpecVal == InitVal /\ [][NextVal]_vars

\* ================================================================== claims
RECURSIVE Flatten(_)
Flatten(ss) == IF ss = <<>> THEN <<>> ELSE Head(ss) \o Flatten(Tail(ss))
Range(s) == {s[i] : i \in 1..Len(s)}
CompletedLines == Flatten([i \in 1..Len(completed) |-> completed[i].file.lines])
InCompleted(l) == \E i \in 1..Len(completed) : l \in Range(completed[i].file.lines)
PartFiles == {n \in DOMAIN local : HasSuffix(n, PartSuffix)}
Published(n) == \E j \in 1..Len(completed) : completed[j].name = n
CloseReturned == mainPc \in {"Stop", "waitUploader", "exited"}

\* C1: after a shutdown started by SIGINT/SIGTERM, with no I/O error, every
\* line that had been sent on dataChan when cancel() was called is in a
\* completed archive when the process exits.
C1_SignalShutdownKeepsSentLines ==
    (mainPc = "exited" /\ shutdownBy = "signal" /\ ~ioError)
        => \A l \in Range(sentAtCancel) : InCompleted(l)

\* C2: when stdin has ended, no line was shed, no I/O error occurred and the
\* writer is closed, the completed archives' lines, concatenated in creation
\* order, are exactly the validated lines in order.
C2_ArchivesReproduceValidatedLines ==
    (mainPc = "exited" /\ ingestDone = "nil" /\ shed = <<>> /\ ~ioError)
        => CompletedLines = validated

\* C3: the Uploader works only on names with the final suffix, never on the
\* path the BatchWriter is writing, and every local name with the final suffix
\* came from a rename done after the compressor and the file handle were closed.
C3_UploaderOnlyTouchesPublishedFiles ==
    /\ \A i \in 1..Len(filesToUpload) :
          LET n == filesToUpload[i] IN
          /\ HasSuffix(n, FinalSuffix)
          /\ n # bw.currentPath
          /\ n = OldArchive \/ Published(n)
    /\ \A n \in DOMAIN local :
          HasSuffix(n, FinalSuffix) =>
             \/ n = OldArchive
             \/ \E j \in 1..Len(completed) :
                   /\ completed[j].name = n /\ completed[j].closed
                   /\ completed[j].file = local[n]
    /\ \A i \in 1..Len(deleted) : HasSuffix(deleted[i].name, FinalSuffix)
    /\ bw.file # "nil" => HasSuffix(bw.currentPath, PartSuffix)

\* the Uploader is transferring a published archive while the BatchWriter has
\* its next file open
C3_Witness ==
    /\ upPc = "stor" /\ Head(filesToUpload) # OldArchive
    /\ bw.file = "open" /\ bw.currentPath \in DOMAIN local

\* C4: every local archive the Uploader has deleted is on the remote under the
\* same final name with the size the local file had.
C4_DeleteOnlyAfterRemoteHoldsSameSize ==
    \A i \in 1..Len(deleted) :
        /\ deleted[i].name \in DOMAIN remote
        /\ Size(remote[deleted[i].name].file) = Size(deleted[i].file)

\* an archive of this run was uploaded and deleted, after a failure
C4_Witness ==
    /\ \E i \in 1..Len(deleted) : deleted[i].name # OldArchive
    /\ faults > 0

\* C5: transferred bytes lie only under temporary names; a final remote name
\* holds a file made by the rename, and that file is a whole archive, equal to
\* the local archive of that name.
C5_NoPartialFileUnderFinalName ==
    \A n \in DOMAIN remote :
        /\ remote[n].origin = "stor" => IsRemoteTemp(n)
        /\ ~IsRemoteTemp(n) =>
              /\ remote[n].origin = "rename"
              /\ \/ n = OldArchive /\ remote[n].file = OldFile
                 \/ \E j \in 1..Len(completed) :
                       completed[j].name = n /\ completed[j].file = remote[n].file

\* a short transfer lies under a temporary name while a delivered archive of
\* this run is under its final name
C5_Witness ==
    \E n \in DOMAIN remote, t \in DOMAIN remote :
        /\ ~IsRemoteTemp(n) /\ n # OldArchive
        /\ IsRemoteTemp(t) /\ ~remote[t].file.trl

C7_AtMostOneInProgressFile ==
    /\ Cardinality(PartFiles) <= 1
    /\ \A i \in 1..Len(filesToUpload) : ~HasSuffix(filesToUpload[i], PartSuffix)
    /\ \A i \in 1..Len(deleted) : ~HasSuffix(deleted[i].name, PartSuffix)

\* between closing the file and renaming it, after an earlier rotation, while
\* the Uploader is in a scan
C7_Witness ==
    /\ bwOp = "rename" /\ bw.file = "nil" /\ bw.gzipWriter = "nil"
    /\ Cardinality(PartFiles) = 1 /\ Len(completed) >= 1
    /\ upPc \in {"readdir", "file", "stor", "verify", "remove"}

Rank(op) == CASE op = "flush" -> 1 [] op = "gzclose" -> 2 [] op = "fclose" -> 3
              [] op = "rename" -> 4

\* C8: the steps of a rotation (and of Close) run in the order flush,
\* compressor close, file close, rename; no step follows a failed one; the
\* rename is attempted only with compressor and file handle closed; a rotation
\* that reaches the new file's creation has done all four; every published
\* file carries the compressor's trailer.
C8_RotationStepsInOrder ==
    /\ \A i \in 1..Len(rotLog) :
          /\ i < Len(rotLog) =>
                rotLog[i].ok /\ Rank(rotLog[i].op) < Rank(rotLog[i + 1].op)
          /\ rotLog[i].op = "rename" => rotLog[i].closed
    /\ (bwCaller = "WriteBatch" /\ bwOp = "create") =>
          /\ Len(rotLog) = 4
          /\ \A i \in 1..4 : rotLog[i].ok /\ Rank(rotLog[i].op) = i
    /\ \A j \in 1..Len(completed) : completed[j].closed /\ completed[j].file.trl
    /\ \A n \in DOMAIN local :
          (HasSuffix(n, FinalSuffix)) => local[n].trl

\* a rotation stopped by a failing file close: no rename followed
C8_Witness ==
    /\ bwOp = "idle" /\ Len(rotLog) = 3
    /\ rotLog[3].op = "fclose" /\ ~rotLog[3].ok
    /\ writerDone = "err"

\* C9: once Close has returned without error, every line of a successful
\* WriteBatch is in a published archive and no in-progress file remains.
C9_CloseOkPublishesAccepted ==
    (CloseReturned /\ ~closeErr) =>
        /\ \A l \in Range(accepted) : InCompleted(l)
        /\ PartFiles = {}
        /\ bw.closed

\* Close has returned without error and published a file that had reached
\* neither rotation threshold
C9_Witness ==
    /\ CloseReturned /\ ~closeErr
    /\ bw.writtenBytes > 0 /\ ~shouldRotate(bw, now)
    /\ accepted # <<>>

\* C10: when the Ingestor ended by end of input or by a read failure and no
\* I/O error occurred in the writer, every line sent on dataChan is in a
\* completed archive when the process exits.
C10_InputEndDrainsChannel ==
    (mainPc = "exited" /\ ingestDone \in {"nil", "readerr"} /\ ~ioError)
        => \A l \in Range(sent) : InCompleted(l)

RECURSIVE IsSubseq(_, _)
IsSubseq(a, b) ==
    IF a = <<>> THEN TRUE
    ELSE IF b = <<>> THEN FALSE
    ELSE IF Head(a) = Head(b) THEN IsSubseq(Tail(a), Tail(b))
    ELSE IsSubseq(a, Tail(b))

ActiveLines ==
    IF bw.currentPath \in DOMAIN local /\ HasSuffix(bw.currentPath, PartSuffix)
    THEN local[bw.currentPath].lines ELSE <<>>
DiskLines == CompletedLines \o ActiveLines

RawBytes(lines) == 2 * Len(lines)
SizeThreshold == rotateSizeMB * MiB
\* the writer was closed without any I/O error and the clock never reached the
\* rotation interval, so no rotation was time-based
ClosedBySizeOnly ==
    CloseReturned /\ ~closeErr /\ ~ioError /\ now < rotateIntervalSec

RotationTested == wPc = "WriteBatch" /\ wPc' \in {"rotating", "Flush"}

RotationTestStep ==
    /\ RotationTested =>
          /\ bw'.writtenBytes = bw.writtenBytes * (IF bw.file = "nil" THEN 0 ELSE 1)
                                   + RawBytes(batch)
          /\ (wPc' = "rotating") <=>
                (\/ now - bw'.startTime >= rotateIntervalSec
                 \/ bw'.writtenBytes >= SizeThreshold)
    /\ (wPc' = "rotating" /\ wPc # "rotating") => wPc = "WriteBatch"
    /\ (wPc' = "Flush" /\ wPc # "Flush") =>
          /\ bw'.writtenBytes < SizeThreshold
          /\ (wPc = "rotating") => (bw'.writtenBytes = 0 /\ bw'.file = "open")

FlushReturned ==
    wPc \in {"select", "done"} /\ bwOp = "idle" /\ ~bw.closed /\ ~ioError

\* C14: once Flush has returned without error, every line accepted by
\* WriteBatch is in a file of the data directory: none is held only in the
\* bufio buffer or in the compressor.
C14_FlushReachesFile ==
    FlushReturned =>
        /\ bw.buf = <<>> /\ bw.gzPending = <<>>
        /\ \A l \in Range(accepted) : l \in Range(DiskLines)

\* the frame part of C14, which does hold: Flush leaves the active file's
\* name, counter, creation time and index alone and publishes nothing
FlushFrameStep ==
    (wPc = "Flush" /\ wPc' # "Flush") =>
        /\ bw'.currentPath = bw.currentPath /\ bw'.writtenBytes = bw.writtenBytes
        /\ bw'.startTime = bw.startTime /\ bw'.fileIndex = bw.fileIndex
        /\ bw'.file = bw.file
        /\ DOMAIN local' = DOMAIN local /\ completed' = completed
FlushKeepsActiveFile == [][FlushFrameStep]_vars

\* C15: with chanTimeout <= 0 no line is ever shed: every validated line has
\* been sent on dataChan, except the one the Ingestor is sending, which is
\* either still to be sent or was given up because of cancellation.
C15_BlockForeverNeverSheds ==
    chanTimeout <= 0 =>
        /\ shed = <<>>
        /\ \/ validated = sent
           \/ /\ validated = Append(sent, ingLine)
              /\ \/ ingPc \in {"send", "blocked"}
                 \/ ingPc = "done" /\ ingestDone = "ctx"

\* block-forever mode, the Ingestor parked on a full channel
C15_Witness ==
    /\ chanTimeout <= 0 /\ ingPc = "blocked" /\ Len(dataChan) >= ChanCap
    /\ sent # <<>>

\* the lines in the channel, in the writer's batch, in the BatchWriter's
\* buffers and in the files
Downstream ==
    Range(dataChan) \cup Range(batch) \cup Range(bw.buf) \cup Range(bw.gzPending)
        \cup Range(DiskLines)

ShedStep ==
    /\ shed' # shed =>
          /\ chanTimeout > 0 /\ ingPc = "blocked" /\ Len(dataChan) >= ChanCap
          /\ shed' = Append(shed, ingLine)
          /\ ingPc' = "read" /\ input' = input /\ dataChan' = dataChan
    /\ (ingPc = "blocked" /\ ingPc' = "blocked" /\ Len(dataChan) < ChanCap) =>
          Len(dataChan') < ChanCap
    /\ (ingPc = "send" /\ ingPc' = "blocked") => Len(dataChan) >= ChanCap
    /\ Range(shed') \cap (Range(sent') \cup Downstream') = {}

\* C16: a line is shed only with chanTimeout > 0, by the parked Ingestor, with
\* the channel full at that moment; the channel was full when the Ingestor
\* parked and, once it has room during the wait, it keeps room, so it was full
\* for the whole wait; the Ingestor then reads on with the next input line; a
\* shed line is never in the channel, in a batch, in a buffer or in a file.
C16_ShedOnlyAfterFullWait == [][ShedStep]_vars

\* after a shed the Ingestor is sending a later input line
C16_Witness ==
    /\ chanTimeout > 0 /\ Len(shed) = 1
    /\ ingPc = "send" /\ ingLine > shed[1]

Delivered(n, f) ==
    /\ n \notin DOMAIN local
    /\ n \in DOMAIN remote /\ remote[n].file = f

\* C17: while the Uploader runs (no cancellation) and remote operations fail
\* only a bounded number of times, every completed archive in the data
\* directory is eventually on the remote under its final name, whole, and
\* gone from the data directory.
C17_CompletedArchivesDelivered ==
    /\ (OldArchive \in DOMAIN local) ~> (Delivered(OldArchive, OldFile) \/ ctxDone)
    /\ (OldArchive2 \in DOMAIN local) ~> (Delivered(OldArchive2, OldFile2) \/ ctxDone)

\* an archive whose upload failed in the first scan was delivered by a later one
C17_Witness ==
    /\ scans >= 2 /\ faults > 0 /\ ~ctxDone
    /\ Delivered(OldArchive, OldFile)
    /\ \E i \in 1..Len(deleted) : deleted[i].name = OldArchive
    /\ upNote.cleaned # {}

\* an uploadFile call ends before the local delete is reached: it failed
UploadFailed ==
    /\ upPc \in {"file", "stor", "verify"} /\ ~(upPc = "file" /\ ctxDone)
    /\ filesToUpload' # filesToUpload

FileFailureStep ==
    /\ UploadFailed =>
          /\ local' = local /\ deleted' = deleted
          /\ filesToUpload' = Tail(filesToUpload)
          /\ upPc' = IF Tail(filesToUpload) = <<>> THEN "idle" ELSE "file"
    /\ (upPc = "remove" /\ upPc' # "remove") =>
          /\ filesToUpload' = Tail(filesToUpload)
          /\ upPc' = IF Tail(filesToUpload) = <<>> THEN "idle" ELSE "file"
          /\ local' = local \/ Head(filesToUpload) \notin DOMAIN local'
    /\ (upPc' = "done" /\ upPc # "done") => (upPc = "idle" /\ (stopChan \/ ctxDone))

MismatchAtStart ==
    /\ upPc = "file" /\ ~ctxDone /\ upPc' # "file"
    /\ Head(filesToUpload) \in DOMAIN remote
    /\ Size(remote[Head(filesToUpload)].file) # Size(local[Head(filesToUpload)])
\* the upload succeeded: verified and renamed
UploadDone == upPc = "verify" /\ upPc' = "remove"

MismatchDeletedStep ==
    /\ (MismatchAtStart /\ upPc' = "stor") => Head(filesToUpload) \notin DOMAIN remote'
    /\ UploadDone =>
          Size(remote'[Head(filesToUpload)].file) = Size(local[Head(filesToUpload)])

MismatchRecoveredStep ==
    /\ (MismatchAtStart /\ faults' = faults) =>
          /\ upPc' = "stor"
          /\ Head(filesToUpload) \notin DOMAIN remote'
          /\ TempName(Head(filesToUpload)) \notin DOMAIN remote'
    /\ UploadDone =>
          /\ remote'[Head(filesToUpload)].file = local[Head(filesToUpload)]
          /\ remote'[Head(filesToUpload)].origin = "rename"
          /\ TempName(Head(filesToUpload)) \notin DOMAIN remote'

RemoteTemps(r) == {n \in DOMAIN r : HasSuffix(n, TmpSuffix)}
InUpload == upPc \in {"file", "stor", "verify", "remove"}

CleanupStep ==
    \* a cycle starts with the cleanup; one in which no remote call failed
    \* leaves no temporary file, whoever left it
    /\ scans' # scans =>
          /\ upPc \in {"start", "idle"} /\ scans' = scans + 1
          /\ local' = local /\ filesToUpload' = filesToUpload
          /\ RemoteTemps(remote') \subseteq RemoteTemps(remote)
          /\ {n \in DOMAIN remote' : ~HasSuffix(n, TmpSuffix)}
                = {n \in DOMAIN remote : ~HasSuffix(n, TmpSuffix)}
          /\ (faults' = faults /\ ~ctxDone) => RemoteTemps(remote') = {}
    \* the local scan comes after the cleanup, the uploads after the local scan
    /\ (upPc' = "readdir" /\ upPc # "readdir") => scans' = scans + 1
    /\ (filesToUpload' # filesToUpload /\ ~InUpload) => upPc = "readdir"
    /\ (InUpload' /\ ~InUpload) => upPc = "readdir"

\* C20: every cycle starts with the cleanup of remote temporary files, then
\* reads the data directory, then uploads; a cycle whose cleanup meets no
\* failure leaves no temporary file on the remote, so a temporary file left by
\* an interrupted transfer is gone after the next such cycle's cleanup.
C20_CleanupFirstInEveryCycle == [][CleanupStep]_vars

\* the second cycle's cleanup has deleted a temporary file that was still
\* there after the first cycle, in which a remote call failed
C20_Witness ==
    /\ scans = 2 /\ upPc = "readdir"
    /\ upNote.cleaned # {} /\ RemoteTemps(remote) = {}
    /\ faults > 0

UploaderOwnStopStep ==
    \* the loop exits only after stop() has closed stopChan
    /\ (upPc' = "done" /\ upPc # "done") => stopChan
    \* a scan that starts goes on to the cleanup and the local scan
    /\ scans' # scans => upPc' = "readdir"
    \* a scan with several files to upload is not given up at its first one
    /\ (upPc = "file" /\ Len(filesToUpload) > 1) => filesToUpload' # <<>>

\* C21 as stated: the Uploader's run loop is stopped only by its own stop()
\* handshake; the cancellation signal of the Ingestor and the BatchWriter
\* neither makes the loop exit nor makes it skip or abort a scan.
C21_UploaderStoppedOnlyByStop == [][UploaderOwnStopStep]_vars

StopCalled == stopChan
StopReturned == mainPc = "exited"

StopReturnedStep ==
    StopReturned => UNCHANGED <<upPc, scans, filesToUpload, local, remote, deleted>>

\* C22: stop(), called once after start(), returns only after the Uploader's
\* run loop has exited: when it has returned no scan or upload is in progress
\* and none starts afterwards; and once called it does return, also when the
\* loop had exited before because the context was cancelled.
C22_StopWaitsForLoopExit ==
    /\ [](StopReturned => upPc = "done")
    /\ [][StopReturnedStep]_vars
    /\ (StopCalled ~> StopReturned)

\* stop() has returned in a run whose loop had left by the cancelled context
C22_Witness == StopReturned /\ upNote.exit = "ctx" /\ scans > 0

WriterFailed == writerDone = "err"
PipelineDown == ctxDone /\ ingPc = "done" /\ upPc = "done" /\ mainPc = "exited"

\* C23 as stated: when writeBatch or flush returns an I/O error the writer
\* loop returns it to the orchestrator, the cancellation signal is raised, and
\* the whole pipeline eventually shuts down: the Ingestor returns, the
\* Uploader is stopped and the process exits.
C23_WriterErrorShutsDown == WriterFailed ~> PipelineDown

CancelRaised == shutdownBy \in {"signal", "writer"}
AtMostOneSentAfterCancel == CancelRaised => Len(sent) <= Len(sentAtCancel) + 1

\* C24 as stated: after the cancellation signal is raised the Ingestor
\* eventually returns in every state it can be in, blocked sending on a full
\* channel or waiting for the next input line, and it enqueues at most one
\* further line after the signal.
C24_CancelStopsIngestor ==
    /\ (CancelRaised ~> ingPc = "done")
    /\ []AtMostOneSentAfterCancel

\* the lines of stdin read so far, in order, and what was done with each
Entries == 1..Len(ingLog)
HeaderEntries == {i \in Entries : ingLog[i].what = "header"}
Enqueued == Range(sent)

\* C25: the line recognised as the header is never enqueued on the channel,
\* and header recognition fires at most once per run: it takes the first line
\* that holds a header keyword, and no later line is consumed as a header,
\* whatever its content.
C25_HeaderConsumedOnce ==
    /\ Cardinality(HeaderEntries) <= 1
    /\ \A i \in HeaderEntries :
          /\ isHeaderLine(ingLog[i].line)
          /\ \A j \in 1..(i - 1) : ~isHeaderLine(ingLog[j].line)
          /\ ingLog[i].line.id \notin Enqueued
          /\ ingLog[i].line.id \notin Range(dataChan) \cup Range(batch)
    /\ headerProcessed <=> HeaderEntries # {}
    /\ ingPc \in {"send", "blocked"} => ingLog[Len(ingLog)].what = "valid"

\* a second line with header keywords came after the header and was not
\* consumed as one: it went to the validator and was rejected
C25_Witness ==
    \E i, j \in Entries :
       /\ i < j /\ ingLog[i].what = "header"
       /\ isHeaderLine(ingLog[j].line) /\ ingLog[j].what = "invalid"
       /\ ingLog[Len(ingLog)].what = "valid" /\ Len(sent) > 0

\* the ids of the lines of the log that were handled as what, in order
RECURSIVE IdsOf(_, _)
IdsOf(log, what) ==
    IF log = <<>> THEN <<>>
    ELSE (IF Head(log).what = what THEN <<Head(log).line.id>> ELSE <<>>)
         \o IdsOf(Tail(log), what)

\* C26: every line enqueued on the channel passed ValidateLine(line, now) when
\* it was read, so what the writer loop receives and writes are such lines
\* only; a line that fails validation is never enqueued, and its rejection
\* does not stop the Ingestor: it returns at the end of the input only.
C26_OnlyValidatedLinesEnqueued ==
    /\ \A i \in Entries :
          /\ ingLog[i].what = "valid" => ValidateLine(ingLog[i].line, now).ok
          /\ ingLog[i].what = "invalid" =>
                /\ ~ValidateLine(ingLog[i].line, now).ok
                /\ ingLog[i].line.id < 0 => ingLog[i].line.id \notin Enqueued
          /\ (~ValidateLine(ingLog[i].line, now).ok /\ i < Len(ingLog)) =>
                 ingLog[i].what \in {"empty", "header", "invalid"}
    /\ validated = IdsOf(ingLog, "valid")
    /\ IsSubseq(sent, validated)
    /\ Range(dataChan) \cup Range(batch) \cup Range(accepted) \subseteq Enqueued
    /\ Range(DiskLines) \subseteq Enqueued
    /\ ingPc = "done" => input = <<>>

\* a line was rejected and the Ingestor went on: a later line was enqueued
C26_Witness ==
    \E i, j \in Entries :
       /\ i < j /\ ingLog[i].what = "invalid" /\ ingLog[j].what = "valid"
       /\ j = Len(ingLog) /\ Len(sent) = Len(validated) /\ ingPc = "read"

\* the checks of the validation rule, stated on the fields themselves: a
\* number is a token that is a decimal integer
IsNumber(f) == f.k = "int"
InRange(f, lo, hi) == IsNumber(f) /\ f.v >= lo /\ f.v <= hi
NonNegative(f) == IsNumber(f) /\ f.v >= 0

\* the reason of the first check that fails, in the order of the rule, or ""
FirstFailing(line, t) ==
    LET f == Split(line, ",") IN
    IF Len(f) # 11 THEN "column count != 11"
    ELSE IF f[1].k # "ip4" THEN "SRC_IP is not valid"
    ELSE IF f[2].k # "ip4" THEN "DST_IP is not valid"
    ELSE IF ~InRange(f[3], 0, 65535) THEN "SRC_PORT is not valid"
    ELSE IF ~InRange(f[4], 0, 65535) THEN "DST_PORT is not valid"
    ELSE IF ~InRange(f[5], 0, 255) THEN "TCP_FLAGS is not valid"
    ELSE IF ~InRange(f[6], 0, 255) THEN "PROTOCOL is not valid"
    ELSE IF ~InRange(f[7], 0, 255) THEN "TOS is not valid"
    ELSE IF ~NonNegative(f[8]) THEN "TIMESTAMP_MIN is not valid"
    ELSE IF ~NonNegative(f[9]) THEN "TIMESTAMP_MAX is not valid"
    ELSE IF ~(f[8].v <= f[9].v) THEN "TIMESTAMP_MAX is not valid"
    ELSE IF ~(f[9].v <= t) THEN "TIMESTAMP_MAX is not valid"
    ELSE IF ~NonNegative(f[10]) THEN "PACKETS is not valid"
    ELSE IF ~NonNegative(f[11]) THEN "BYTES is not valid"
    ELSE ""

\* C27 as stated: ValidateLine(line, now) returns ok exactly when all checks
\* pass (11 fields, both addresses IPv4, ports in 0..65535, flags, protocol
\* and ToS in 0..255, window start and window end non-negative numbers with
\* start <= end <= now, packet and byte counts non-negative integers), and
\* otherwise the reason of the first failing check in that order.
C27_ValidateOkExactlyWhenChecksPass ==
    \A i \in Entries :
       ingLog[i].what \in {"valid", "invalid"} =>
          /\ (ingLog[i].what = "valid") <=> (FirstFailing(ingLog[i].line, now) = "")
          /\ ingLog[i].reason = FirstFailing(ingLog[i].line, now)

\* the records of the error file: one per rejected line, as errWriter.Write
\* appends them (line number, raw line, reason)
ErrorRecordOf(i) == <<ingLog[i].lineNo, ingLog[i].line, ingLog[i].reason>>
RejectedEntries == {i \in Entries : ingLog[i].what = "invalid"}

\* C28 as stated: for a rejected line (such as a record whose destination
\* port is 99999, rejected with the destination-port reason) one record
\* (line number, raw line, reason) is appended to the error file, and the
\* line number recorded is the line's 1-based number in the input stream.
C28_ErrorRecordHasStreamLineNumber ==
    \A i \in RejectedEntries :
       /\ ErrorRecordOf(i)[1] = i
       /\ ErrorRecordOf(i)[3] = ValidateLine(ingLog[i].line, now).reason
       /\ ingLog[i].line = BadLine => ErrorRecordOf(i)[3] = "DST_PORT is not valid"

\* the header was read before line i and both statistics columns were found
HeaderLocatedBefore(i) ==
    \E j \in 1..(i - 1) :
       /\ ingLog[j].what = "header"
       /\ IndexOf(ingLog[j].line, "packetTotalCount") >= 0
       /\ IndexOf(ingLog[j].line, "octetTotalCount") >= 0

\* C29 as stated: for every valid record processed after a header in which
\* both the packet-count and the byte-count column were located, the Ingestor
\* calls the status reporter's add with the record's packet count and byte
\* count (columns PACKETS and BYTES).
C29_AddCalledForValidRecords ==
    \A i \in Entries :
       (ingLog[i].what = "valid" /\ HeaderLocatedBefore(i)) =>
          ingLog[i].add = << <<ingLog[i].line.cols[10].v, ingLog[i].line.cols[11].v>> >>

\* a finished file in the root of the data directory: a flow archive or a
\* file of the diagnostics collector, as opposed to the file being written
FinishedFile(n) == HasSuffix(n, FinalSuffix) \/ HasSuffix(n, DiagSuffix)

ScanSelectsAllStep ==
    \* the step of os.ReadDir and the filter, when ReadDir does not fail
    (upPc = "readdir" /\ upPc' # "readdir" /\ faults' = faults) =>
       \A n \in DOMAIN local : FinishedFile(n) => n \in Range(filesToUpload')

\* C30 as stated: every scan of the Uploader selects for upload all finished
\* files in the root of the output directory, the flow archives (*.csv.gz)
\* and the diagnostic files (*.json.gz) of the diagnostics collector.
C30_ScanSelectsAllFinishedFiles == [][ScanSelectsAllStep]_vars

\* the BatchWriter is inside no call: the writer loop waits in its select or
\* has returned, and main has not called Close
BetweenCalls == wPc \in {"select", "done"} /\ bwOp = "idle"

RotationDrivenStep ==
    \* an archive goes from in-progress to completed only in the rename of a
    \* WriteBatch that was given lines, or in the rename of Close
    /\ completed' # completed =>
          /\ bwOp = "rename"
          /\ \/ bwCaller = "WriteBatch" /\ wPc = "rotating" /\ batch # <<>>
             \/ bwCaller = "Close" /\ mainPc = "closing" /\ wPc = "done"
    \* outside a call no in-progress file appears, disappears or changes,
    \* whatever the clock says
    /\ BetweenCalls =>
          /\ completed' = completed
          /\ PartFiles' = PartFiles
          /\ \A n \in PartFiles : local'[n] = local[n]
    \* the loop hands WriteBatch a batch with at least one line
    /\ wPc' \in {"WriteBatch", "rotating"} => batch' # <<>>

CompletedNames == {completed[i].name : i \in 1..Len(completed)}
OpenedIndexes == {n.idx : n \in CompletedNames} \cup {n.idx : n \in PartFiles}

\* C32: the sequence index is the number of archives the instance has opened,
\* the archives opened carry the indexes 0, 1, ... in turn, each once, so
\* their names are pairwise distinct, and the final name of the archive in
\* progress is the name of no archive completed earlier.
C32_IndexCountsOpenedArchives ==
    /\ bw.fileIndex = Len(completed) + Cardinality(PartFiles)
    /\ OpenedIndexes = 0..(bw.fileIndex - 1)
    /\ \A i, j \in 1..Len(completed) :
          completed[i].name = completed[j].name => i = j
    /\ \A i, j \in 1..Len(completed) : i < j => completed[i].name.idx < completed[j].name.idx
    /\ \A n \in PartFiles :
          /\ n.idx = bw.fileIndex - 1
          /\ FinalPath(n) \notin CompletedNames
          /\ FinalPath(n) \notin DOMAIN local

\* a rotation by size: the second archive was opened in the same second as
\* the first, which is completed
C32_Witness ==
    /\ Len(completed) = 1 /\ bw.fileIndex = 2
    /\ \E n \in PartFiles : n.ts = completed[1].name.ts /\ n.idx = 1

\* a file of the data directory that this instance made: the file it has
\* open (or has just closed), or an archive it completed
OwnFile(n) ==
    \/ n = bw.currentPath /\ bw.fileIndex = n.idx + 1 /\ HasSuffix(n, PartSuffix)
    \/ \E i \in 1..Len(completed) :
          completed[i].name = n /\ completed[i].file = local[n]

LeftoverKeptStep ==
    \A n \in DOMAIN local :
       ~OwnFile(n) => (n \in DOMAIN local' /\ local'[n] = local[n])

\* C33 as stated: a new BatchWriter instance never truncates, resumes or
\* overwrites a file that an earlier instance left in the data directory:
\* every step of the pipeline leaves each file it did not make itself in
\* place, with its content.
C33_LeftoversNeverTouched == [][LeftoverKeptStep]_vars

\* the active archive: the file of the last rotateFile that succeeded; it is
\* published once it stands under its final name with the lines it was given
ActiveOpened == bw.fileIndex > 0 /\ bw.currentPath.idx = bw.fileIndex - 1
ActivePublished ==
    /\ bw.currentPath \notin DOMAIN local
    /\ FinalPath(bw.currentPath) \in CompletedNames
    /\ bw.buf = <<>> /\ bw.gzPending = <<>>

\* a call of Close has returned nil
CloseReturnedNil == mainPc = "Stop" /\ ~closeErr

\* C34 as stated: Close returns success only if the active archive, when one
\* was ever opened, has been renamed to its final name: when a Close has
\* returned nil, also a later one after a Close that failed, the active
\* archive stands under its final name and no line is left in a buffer.
C34_CloseNilOnlyWhenPublished ==
    (CloseReturnedNil /\ ActiveOpened) => ActivePublished

CallsAfterCloseStep ==
    /\ bw.closed => bw'.closed
    /\ (wPc = "WriteBatch" /\ wPc' # "WriteBatch" /\ bw.closed) =>
          /\ wPc' = "done" /\ writerDone' = "err"
          /\ bw' = bw /\ local' = local /\ accepted' = accepted
    /\ (wPc = "Flush" /\ wPc' # "Flush" /\ bw.closed) =>
          /\ wPc' = "select" /\ writerDone' = "none"
          /\ bw' = bw /\ local' = local
    /\ (mainPc = "Close" /\ mainPc' # "Close" /\ bw.closed) =>
          /\ mainPc' = "Stop" /\ ~closeErr'
          /\ bw' = bw /\ local' = local /\ completed' = completed

\* C36: once Close has been called the closed state is permanent: WriteBatch
\* returns an error and writes nothing, Flush returns nil and does nothing,
\* and a further Close returns nil and touches no file.
C36_ClosedWriterIsInert == [][CallsAfterCloseStep]_vars

\* after a Close that published an archive, a WriteBatch has returned its
\* error and a further Close has returned nil
C36_Witness ==
    /\ bw.closed /\ Len(completed) = 1 /\ PartFiles = {}
    /\ wPc = "done" /\ writerDone = "err" /\ batch # <<>>
    /\ mainPc = "Stop" /\ ~closeErr /\ rotLog # <<>> /\ faults = 0

\* main executes close(dataChan)
ClosesDataChan == mainPc # "waitWriter" /\ mainPc' = "waitWriter"
\* main is in bw.Close()
InClose == mainPc \in {"Close", "closing"} \/ bwCaller = "Close"

ShutdownOrderStep ==
    \* the channel is closed by main only, once, after runIngest has returned
    /\ chanClosed' # chanClosed => ClosesDataChan
    /\ ClosesDataChan =>
          /\ ~chanClosed /\ chanClosed'
          /\ ingPc = "done" /\ ingestDone # "none"
          /\ shutdownBy' \in {"signal", "ingest"}
    \* so nothing is sent on the closed channel
    /\ chanClosed => (chanClosed' /\ sent' = sent /\ ingPc' = "done")
    \* after a writer failure the channel is not closed at all
    /\ shutdownBy' = "writer" => ~chanClosed'
    \* Close is called after the writer loop (and the Ingestor) returned
    /\ InClose' => (wPc' = "done" /\ writerDone' # "none" /\ ingPc' = "done")

\* C35: in every shutdown path main closes dataChan at most once and only
\* after the Ingestor has returned (not at all after a writer failure), so
\* no send on the closed channel and no second close occurs; bw.Close() is
\* called only after the writer loop has returned.
C35_ShutdownOrder == [][ShutdownOrderStep]_vars

\* a signal arrived while the Ingestor waited to send: the channel was
\* closed after the Ingestor returned, the writer loop drained it and
\* returned, and main is in Close
C35_Witness ==
    /\ shutdownBy = "signal" /\ ingestDone = "ctx" /\ Len(sentAtCancel) < Len(validated)
    /\ chanClosed /\ dataChan = <<>> /\ wPc = "done" /\ writerDone = "nil"
    /\ mainPc = "closing"

\* C37 as stated: every archive published under a final name holds at least
\* one line, also when Close follows a rotation with no batch in between,
\* and a BatchWriter that was given no batch has made no file.
C37_NoEmptyArchivePublished ==
    /\ \A i \in 1..Len(completed) : completed[i].file.lines # <<>>
    /\ bw.fileIndex = 0 => (PartFiles = {} /\ completed = <<>>)

\* C38 as stated: the Uploader deletes a local archive without transferring
\* it only when the remote holds a copy with the same content: when the
\* local delete is reached without a transfer, the remote file of that name
\* equalled the local file (same size with other content does not count),
\* and every deleted archive is on the remote with its content.
C38_SkipOnlyForSameContent ==
    /\ (upPc = "remove" /\ ~upStored) => upDup
    /\ \A i \in 1..Len(deleted) :
          /\ deleted[i].name \in DOMAIN remote
          /\ remote[deleted[i].name].file = deleted[i].file

\* the lines read before any line with a header keyword
BeforeHeader == {i \in Entries : \A j \in 1..i : ~isHeaderLine(ingLog[j].line)}
\* a valid line is on its way: sent, dropped after the full wait, or in the
\* send select
Forwarded(i) ==
    \/ ingLog[i].line.id \in Range(sent) \cup Range(shed)
    \/ i = Len(ingLog) /\ ingPc \in {"send", "blocked"} /\ ingLine = ingLog[i].line.id

\* C39: while no header has been recognised, a non-empty line without a
\* header keyword is handled as a data line: it is validated and, if valid,
\* enqueued; the Ingestor stays in the header-awaiting state, so the first
\* later line with a header keyword is consumed as the header.
C39_DataBeforeHeaderIsData ==
    /\ \A i \in BeforeHeader :
          /\ Len(ingLog[i].line.cols) = 0 => ingLog[i].what = "empty"
          /\ Len(ingLog[i].line.cols) > 0 =>
                /\ ingLog[i].what =
                      (IF ValidateLine(ingLog[i].line, now).ok THEN "valid" ELSE "invalid")
                /\ ingLog[i].what = "valid" => Forwarded(i)
    /\ BeforeHeader = Entries => ~headerProcessed
    /\ \A i \in Entries :
          (isHeaderLine(ingLog[i].line) /\ i - 1 \in BeforeHeader \cup {0})
             => (ingLog[i].what = "header" /\ headerProcessed)

\* a valid record came first and was enqueued, a rejected one followed, and
\* the header after them was consumed as the header
C39_Witness ==
    /\ Len(ingLog) = 3
    /\ ingLog[1].what = "valid" /\ ingLog[1].line.id \in Enqueued
    /\ ingLog[2].what = "invalid"
    /\ ingLog[3].what = "header" /\ headerProcessed /\ packetIdx >= 0

====
